---- MODULE Spec2Model ----
(***************************************************************************)
(* Imagura: the asynchronous decode pipeline (AsyncImageLoader: worker     *)
(* pool, priority task queue, UI event drain) and the switch / open        *)
(* animation state machine of the viewer's frame loop (src/imagura2.py),   *)
(* with the texture caches, the thumbnail cache and the deletion and       *)
(* reload of the current image.                                            *)
(*                                                                         *)
(* Two families of specifications share the loader's model:                *)
(*   SpecLoader / SpecLoaderLive  the loader alone, with opaque callbacks  *)
(*   Spec / SpecLive / SpecBurst  the viewer's frame loop over the loader  *)
(*   SpecEdit                     the viewer while images are deleted and  *)
(*                                transformed                              *)
(*   SpecLarge                    the viewer in a directory of more images *)
(*                                than the thumbnail cache holds           *)
(***************************************************************************)
EXTENDS Integers, Sequences, FiniteSets, TLC

\* ------------------------------------------------------------------ bounds

\* Decode worker threads of the model (the program starts ASYNC_WORKERS).
NumWorkers == 2
\* Tasks submitted in one behaviour of the loader-only specifications.
MaxTasks == 3

Workers == 1..NumWorkers

\* ------------------------------------------------------------- data types

None == "None"

\* LoadPriority (IntEnum)
CURRENT == 0
NEIGHBOR == 1
GALLERY == 2
Priorities == {CURRENT, NEIGHBOR, GALLERY}

\* Paths handed to the loader by the loader-only specifications.
LoaderPaths == {"a.png", "b.png"}

\* max_events of the two poll_ui_events calls of the frame loop.
POLL_BUDGET_OPENING == 2
POLL_BUDGET_NORMAL == 100
PollBudgets == {POLL_BUDGET_OPENING, POLL_BUDGET_NORMAL}

\* The callback of a loader-only task: an opaque callable.
PlainCallback == [kind |-> "plain", old_index |-> 0, origin |-> "test"]

LoadTask(path, priority, callback, timestamp) ==
  [path |-> path, priority |-> priority, callback |-> callback,
   timestamp |-> timestamp]

NoTask == LoadTask(None, CURRENT, PlainCallback, 0)
NoResult == [result |-> None, error |-> None]

\* UIEvent(callback, (path, result, error)); tid names the task it answers.
UIEvent(task, result, error) ==
  [callback |-> task.callback, path |-> task.path, result |-> result,
   error |-> error, tid |-> task.timestamp]

VARIABLES
  \* AsyncImageLoader
  task_queue,         \* PriorityQueue: the binary heap array of LoadTask
  running,            \* self.running
  ui_events,          \* deque of UIEvent, guarded by ui_lock
  wpc,                \* each worker's position in _worker_loop
  wtask,              \* each worker's local `task`
  wresult,            \* each worker's locals (result, error)
  clock,              \* now(): number of timestamps handed out so far
  \* poll_ui_events
  mpc,                \* the main thread's position
  events_to_process,  \* poll_ui_events' local list
  ev_i,               \* events of that list already iterated
  poll_max,           \* max_events of the call in progress / last made
  poll_outcome,       \* how the last poll_ui_events call ended
  \* observation of the loader (written, never read, by the program's model)
  invoked,            \* task timestamp -> number of callback invocations
  raised_at,          \* position in events_to_process of a raising callback
  wfailed,            \* workers that have captured a decode failure
  \* the viewer
  state,              \* the AppState record (fields named as in the source)
  frame,              \* the main thread's position in the frame loop of main()
  inputs,             \* user inputs received so far
  \* observation of the viewer
  anim_requests,      \* switch_to calls made during the running switch tween
  last_pop,           \* what the last process_switch_queue call dequeued
  observed,           \* the last navigation request, the failed thumbnail decodes
  \* the view functions on their own
  calc,               \* a call of a view_math function: arguments and results
  \* the animation controller on its own
  controller          \* an AnimationController and what its callbacks were called with

loaderVars == <<task_queue, running, ui_events, wpc, wtask, wresult, clock>>
pollVars == <<mpc, events_to_process, ev_i, poll_max, poll_outcome>>
obsVars == <<invoked, raised_at, wfailed>>
viewVars == <<state, frame, inputs, anim_requests, last_pop, observed, calc,
             controller>>
vars == <<loaderVars, pollVars, obsVars, viewVars>>

\* --------------------------------------------------- the priority queue

\* LoadTask.__lt__ preferring the later timestamp within a priority
\* (`self.timestamp > other.timestamp`).
LoadTask_lt_NewestFirst(a, b) ==
  IF a.priority # b.priority
    THEN a.priority < b.priority
    ELSE a.timestamp > b.timestamp

\* LoadTask.__lt__ with the priority test dropped (timestamps only).
LoadTask_lt_TimestampOnly(a, b) == a.timestamp < b.timestamp

\* LoadTask.__lt__
LoadTask_lt(a, b) ==
  IF a.priority # b.priority
    THEN a.priority < b.priority
    ELSE a.timestamp < b.timestamp

\* heapq._siftdown, as used by PriorityQueue.put / get. Positions are the
\* 0-based positions of the Python list; heap[p + 1] is list element p.
RECURSIVE SiftDownLoop(_, _, _, _)
SiftDownLoop(heap, startpos, pos, newitem) ==
  IF pos > startpos
    THEN LET parentpos == (pos - 1) \div 2
             parent == heap[parentpos + 1]
         IN  IF LoadTask_lt(newitem, parent)
               THEN SiftDownLoop([heap EXCEPT ![pos + 1] = parent],
                                 startpos, parentpos, newitem)
               ELSE [heap EXCEPT ![pos + 1] = newitem]
    ELSE [heap EXCEPT ![pos + 1] = newitem]

\* heapq._siftup
RECURSIVE SiftUpLoop(_, _, _, _)
SiftUpLoop(heap, startpos, pos, newitem) ==
  LET endpos == Len(heap)
      childpos == 2 * pos + 1
  IN  IF childpos < endpos
        THEN LET rightpos == childpos + 1
                 c == IF rightpos < endpos
                         /\ ~LoadTask_lt(heap[childpos + 1], heap[rightpos + 1])
                        THEN rightpos
                        ELSE childpos
             IN  SiftUpLoop([heap EXCEPT ![pos + 1] = heap[c + 1]],
                            startpos, c, newitem)
        ELSE SiftDownLoop([heap EXCEPT ![pos + 1] = newitem],
                          startpos, pos, newitem)

\* PriorityQueue.put: heappush
HeapPush(heap, item) ==
  LET appended == Append(heap, item)
  IN  SiftDownLoop(appended, 0, Len(appended) - 1, item)

\* PriorityQueue.get: heappop; <<item, heap'>>
HeapPop(heap) ==
  LET lastelt == heap[Len(heap)]
      rest == SubSeq(heap, 1, Len(heap) - 1)
  IN  IF Len(rest) > 0
        THEN <<rest[1], SiftUpLoop([rest EXCEPT ![1] = lastelt], 0, 0, lastelt)>>
        ELSE <<lastelt, rest>>

\* AsyncImageLoader.submit as a function of (queue, clock)
SubmitTo(queue, now, path, priority, callback) ==
  HeapPush(queue, LoadTask(path, priority, callback, now + 1))

\* ---------------------------------------------------------- the workers

\* AsyncImageLoader.submit(path, priority, callback), opaque callback
Submit(path, priority) ==
  /\ running
  /\ clock < MaxTasks
  /\ task_queue' = SubmitTo(task_queue, clock, path, priority, PlainCallback)
  /\ clock' = clock + 1
  /\ UNCHANGED <<running, ui_events, wpc, wtask, wresult, pollVars, obsVars, viewVars>>

\* _worker_loop: `while self.running` holds, enter task_queue.get
WorkerLoopEnter(w) ==
  /\ wpc[w] = "loop"
  /\ running
  /\ wpc' = [wpc EXCEPT ![w] = "get"]
  /\ UNCHANGED <<task_queue, running, ui_events, wtask, wresult, clock,
                 pollVars, obsVars, viewVars>>

\* _worker_loop: `while self.running` fails, the thread ends
WorkerLoopExit(w) ==
  /\ wpc[w] = "loop"
  /\ ~running
  /\ wpc' = [wpc EXCEPT ![w] = "exit"]
  /\ UNCHANGED <<task_queue, running, ui_events, wtask, wresult, clock,
                 pollVars, obsVars, viewVars>>

\* _worker_loop: task_queue.get(timeout=0.1) returns a task
WorkerGet(w) ==
  /\ wpc[w] = "get"
  /\ Len(task_queue) > 0
  /\ LET popped == HeapPop(task_queue)
     IN  /\ wtask' = [wtask EXCEPT ![w] = popped[1]]
         /\ task_queue' = popped[2]
  /\ wpc' = [wpc EXCEPT ![w] = "decode"]
  /\ UNCHANGED <<running, ui_events, wresult, clock, pollVars, obsVars, viewVars>>

\* _worker_loop with an untimed task_queue.get(): on an empty queue the
\* worker stays in the call.
WorkerGetEmpty_Blocks(w) ==
  /\ wpc[w] = "get"
  /\ Len(task_queue) = 0
  /\ UNCHANGED vars

\* _worker_loop: task_queue.get times out (Empty), `continue`
WorkerGetEmpty(w) ==
  /\ wpc[w] = "get"
  /\ Len(task_queue) = 0
  /\ wpc' = [wpc EXCEPT ![w] = "loop"]
  /\ UNCHANGED <<task_queue, running, ui_events, wtask, wresult, clock,
                 pollVars, obsVars, viewVars>>

\* _worker_loop: loader_func(task.path) returns an image
WorkerDecodeOk(w) ==
  /\ wpc[w] = "decode"
  /\ wresult' = [wresult EXCEPT ![w] = [result |-> "img", error |-> None]]
  /\ wpc' = [wpc EXCEPT ![w] = "push"]
  /\ UNCHANGED <<task_queue, running, ui_events, wtask, clock, pollVars,
                 obsVars, viewVars>>

\* A worker whose decode exception escapes the loop body: the thread dies.
WorkerDecodeFail_Propagates(w) ==
  /\ wpc[w] = "decode"
  /\ wpc' = [wpc EXCEPT ![w] = "exit"]
  /\ wfailed' = [wfailed EXCEPT ![w] = TRUE]
  /\ UNCHANGED <<task_queue, running, ui_events, wtask, wresult, clock,
                 pollVars, invoked, raised_at, viewVars>>

\* _worker_loop: loader_func(task.path) raises; `except Exception as e`
WorkerDecodeFail(w) ==
  /\ wpc[w] = "decode"
  /\ wresult' = [wresult EXCEPT ![w] = [result |-> None, error |-> "err"]]
  /\ wpc' = [wpc EXCEPT ![w] = "push"]
  /\ wfailed' = [wfailed EXCEPT ![w] = TRUE]
  /\ UNCHANGED <<task_queue, running, ui_events, wtask, clock, pollVars,
                 invoked, raised_at, viewVars>>

\* _worker_loop: _push_ui_event(...) under ui_lock, task_done(); the
\* iteration's locals (task, result, error) are dead from here on
WorkerPush(w) ==
  /\ wpc[w] = "push"
  /\ ui_events' = Append(ui_events,
                         UIEvent(wtask[w], wresult[w].result, wresult[w].error))
  /\ wpc' = [wpc EXCEPT ![w] = "loop"]
  /\ wtask' = [wtask EXCEPT ![w] = NoTask]
  /\ wresult' = [wresult EXCEPT ![w] = NoResult]
  /\ UNCHANGED <<task_queue, running, clock, pollVars, obsVars, viewVars>>

\* AsyncImageLoader.shutdown: running = False (the joins time out or not)
Shutdown ==
  /\ running
  /\ mpc = "idle"
  /\ running' = FALSE
  /\ UNCHANGED <<task_queue, ui_events, wpc, wtask, wresult, clock, pollVars,
                 obsVars, viewVars>>

\* ------------------------------------------------------- poll_ui_events

Min(a, b) == IF a < b THEN a ELSE b

\* The drain reading the queued events without removing them.
PollBegin_Peek(max_events) ==
  LET count == Min(Len(ui_events), max_events)
  IN  /\ mpc = "idle"
      /\ events_to_process' = SubSeq(ui_events, 1, count)
      /\ ev_i' = 0
      /\ poll_max' = max_events
      /\ poll_outcome' = "polling"
      /\ raised_at' = 0
      /\ mpc' = "dispatch"
      /\ UNCHANGED <<loaderVars, invoked, wfailed>>

\* The locked loop, popping one event too many (count <= max_events).
PollBegin_OffByOne(max_events) ==
  LET count == Min(Len(ui_events), max_events + 1)
  IN  /\ mpc = "idle"
      /\ events_to_process' = SubSeq(ui_events, 1, count)
      /\ ui_events' = SubSeq(ui_events, count + 1, Len(ui_events))
      /\ ev_i' = 0
      /\ poll_max' = max_events
      /\ poll_outcome' = "polling"
      /\ raised_at' = 0
      /\ mpc' = "dispatch"
      /\ UNCHANGED <<task_queue, running, wpc, wtask, wresult, clock, invoked,
                     wfailed>>

\* poll_ui_events: under ui_lock, popleft while events remain and
\* count < max_events
PollBegin(max_events) ==
  LET count == Min(Len(ui_events), max_events)
  IN  /\ mpc = "idle"
      /\ events_to_process' = SubSeq(ui_events, 1, count)
      /\ ui_events' = SubSeq(ui_events, count + 1, Len(ui_events))
      /\ ev_i' = 0
      /\ poll_max' = max_events
      /\ poll_outcome' = "polling"
      /\ raised_at' = 0
      /\ mpc' = "dispatch"
      /\ UNCHANGED <<task_queue, running, wpc, wtask, wresult, clock, invoked,
                     wfailed>>

\* The event the `for event in events_to_process` loop is at.
CurrentEvent == events_to_process[ev_i + 1]

\* poll_ui_events: event.callback(*event.args) is entered for the next event
Invoke ==
  /\ mpc = "dispatch"
  /\ ev_i < Len(events_to_process)
  /\ ev_i' = ev_i + 1
  /\ UNCHANGED <<loaderVars, events_to_process, poll_max, wfailed>>

\* A callback's exception leaving poll_ui_events: the loop is abandoned.
InvokeRaises_Propagates ==
  /\ Invoke
  /\ CurrentEvent.callback.kind = "plain"
  /\ invoked' = [invoked EXCEPT ![CurrentEvent.tid] = @ + 1]
  /\ raised_at' = ev_i + 1
  /\ mpc' = "idle"
  /\ poll_outcome' = "raised"

\* poll_ui_events: the callback raises; `except Exception` logs, loop goes on
InvokeRaises ==
  /\ Invoke
  /\ CurrentEvent.callback.kind = "plain"
  /\ invoked' = [invoked EXCEPT ![CurrentEvent.tid] = @ + 1]
  /\ raised_at' = ev_i + 1
  /\ UNCHANGED <<mpc, poll_outcome>>

\* poll_ui_events: the (opaque) callback returns
InvokeReturns ==
  /\ Invoke
  /\ CurrentEvent.callback.kind = "plain"
  /\ invoked' = [invoked EXCEPT ![CurrentEvent.tid] = @ + 1]
  /\ UNCHANGED <<mpc, poll_outcome, raised_at>>

\* poll_ui_events: the for loop is exhausted, the call returns (its locals die)
PollReturn ==
  /\ mpc = "dispatch"
  /\ ev_i = Len(events_to_process)
  /\ mpc' = "idle"
  /\ poll_outcome' = "returned"
  /\ events_to_process' = <<>>
  /\ ev_i' = 0
  /\ poll_max' = 0
  /\ raised_at' = 0
  /\ UNCHANGED <<loaderVars, invoked, wfailed>>

\* ------------------------------------------------------ the viewer's data

Max(a, b) == IF a > b THEN a ELSE b

\* math_utils.clamp
Clamp(v, a, b) == IF v < a THEN a ELSE IF v > b THEN b ELSE v

\* imagura/config.py
ANIM_SWITCH_KEYS_MS == 250
ANIM_SWITCH_GALLERY_MS == 10
ANIM_TOGGLE_ZOOM_MS == 150
ANIM_OPEN_MS == 300
ANIM_ZOOM_MS == 150
GALLERY_SETTLE_DEBOUNCE_MS == 120
\* config.THUMB_CACHE_LIMIT is 400 thumbnails; the model keeps it at the
\* size of its small directory and below the size of its large one
\* (LargeDirImages), as 400 is below the size of a directory of 401 images.
THUMB_CACHE_LIMIT == 3
THUMB_PRELOAD_SPAN == 40
THUMB_BUILD_BUDGET_PER_FRAME == 2
\* the literal bound of the switch-request queue (switch_to, queue_switch)
SWITCH_QUEUE_LIMIT == 20
\* the placeholder texture of a failed CURRENT decode: GenImageColor(2, 2, ..)
PLACEHOLDER_SIZE == 2

\* Milliseconds of the clock between two Tick steps: elapsed times are
\* counted in ticks, and `now() - t0 >= d` reads `elapsed * TickMs >= d`.
TickMs == 150
\* The longest duration the frame loop compares an elapsed time with.
ElapsedCap == (ANIM_OPEN_MS + TickMs - 1) \div TickMs

\* Width and height of every decoded image of the model.
ImgW == 400
ImgH == 300

\* The directory listing (list_images), the files is_heavy_image accepts
\* and the files load_image_cpu_only raises on.
DirImages == <<"a.png", "b.png", "c.png">>
HeavyPaths == {"b.png", "c.png"}
BadPaths == {"c.png"}
\* The positions main() is started at (start_path's index, else 0).
StartIndexes == {1, 2}
IsHeavy(path) == path \in HeavyPaths

TextureInfo(tex, w, h, path) == [tex |-> tex, w |-> w, h |-> h, path |-> path]
\* Python's None where a TextureInfo is expected, and where an index is
NoTextureInfo == TextureInfo(0, 0, 0, "")
NoIndex == 0 - 1
\* A BitmapThumb's texture None
NoTexture == 0
ImageCache(prev, curr, next) == [prev |-> prev, curr |-> curr, next |-> next]
BitmapThumb(texture, src_path, ready) ==
  [texture |-> texture, src_path |-> src_path, ready |-> ready]

\* ------------------------------------------------------- view arithmetic

\* A Python float is modelled by a fixed-point number: a scale (and a
\* tween's t) counts units of 1/ScaleUnit, a screen or image length counts
\* units of 1/PxUnit pixel; a quotient is rounded down to the unit.
ScaleUnit == 1000
PxUnit == 100
Abs(x) == IF x < 0 THEN 0 - x ELSE x
\* a length of px pixels
Px(px) == px * PxUnit
\* `length * scale`, `length / scale` and `a * b` of two scales
Scaled(length, scale) == (length * scale) \div ScaleUnit
Unscaled(length, scale) == (length * ScaleUnit) \div scale
ScaleMul(a, b) == (a * b) \div ScaleUnit

\* math_utils.lerp
Lerp(a, b, t) == a + Scaled(b - a, Clamp(t, 0, ScaleUnit))

\* math_utils.ease_out_quad
EaseOutQuad(t) ==
  IF t <= 0 THEN 0
  ELSE IF t >= ScaleUnit THEN ScaleUnit
  ELSE ScaleUnit - ScaleMul(ScaleUnit - t, ScaleUnit - t)

\* math_utils.ease_in_out_cubic
EaseInOutCubic(t) ==
  IF t <= 0 THEN 0
  ELSE IF t >= ScaleUnit THEN ScaleUnit
  ELSE IF 2 * t < ScaleUnit THEN 4 * ScaleMul(t, ScaleMul(t, t))
  ELSE ScaleUnit + ScaleMul(2 * t - 2 * ScaleUnit,
                            ScaleMul(2 * t - 2 * ScaleUnit,
                                     2 * t - 2 * ScaleUnit)) \div 2

\* imagura/config.py: FIT_DEFAULT_SCALE = 0.95, ZOOM_STEP_KEYS = 0.05,
\* MAX_ZOOM = 20.0
FIT_DEFAULT_SCALE == (95 * ScaleUnit) \div 100
ZOOM_STEP_KEYS == (5 * ScaleUnit) \div 100
MAX_ZOOM == 20 * ScaleUnit
\* the literals of view_math: max(0.01, new_scale), the tolerance 0.01 of a
\* scale, the offsets 5.0 and 50.0; 1e-6, below the unit of a scale, is the
\* smallest scale above 0
SCALE_FLOOR == ScaleUnit \div 100
SCALE_TOLERANCE == ScaleUnit \div 100
SCALE_EPS == 1
NEAR_ZERO_PX == 5
FAR_PX == 50
\* main loop: a release counts as a pan when the mouse moved more than 5 px
PAN_THRESHOLD_PX == 5

\* state.screenW, state.screenH: the monitor's size
ScreenW == 200
ScreenH == 100

\* types.ViewParams; ViewParams() is (1.0, 0.0, 0.0)
ViewParams(scale, offx, offy) == [scale |-> scale, offx |-> offx, offy |-> offy]
ViewParams0 == ViewParams(ScaleUnit, 0, 0)

\* view_math.compute_fit_scale; frac is a scale
ComputeFitScale(img_w, img_h, screen_w, screen_h, frac) ==
  IF img_w = 0 \/ img_h = 0
    THEN ScaleUnit
    ELSE Min((screen_w * frac) \div img_w, (screen_h * frac) \div img_h)

\* view_math.center_view_for
CenterViewFor(scale, img_w, img_h, screen_w, screen_h) ==
  ViewParams(scale,
             (Px(screen_w) - Scaled(Px(img_w), scale)) \div 2,
             (Px(screen_h) - Scaled(Px(img_h), scale)) \div 2)

\* view_math.clamp_pan with the clamp bounds taken about the offset in
\* place of the centre (`view.offx` for `img_center_x`).
ClampPan_AboutOffset(view, img_w, img_h, screen_w, screen_h) ==
  LET vw == Scaled(Px(img_w), view.scale)
      vh == Scaled(Px(img_h), view.scale)
      screen_center_x == Px(screen_w) \div 2
      screen_center_y == Px(screen_h) \div 2
      max_dev_x == Abs(Px(screen_w) - vw) \div 2
      max_dev_y == Abs(Px(screen_h) - vh) \div 2
      clamped_center_x == Clamp(view.offx, screen_center_x - max_dev_x,
                                screen_center_x + max_dev_x)
      clamped_center_y == Clamp(view.offy, screen_center_y - max_dev_y,
                                screen_center_y + max_dev_y)
  IN  ViewParams(view.scale, clamped_center_x - vw \div 2,
                 clamped_center_y - vh \div 2)

\* view_math.clamp_pan
ClampPan(view, img_w, img_h, screen_w, screen_h) ==
  LET vw == Scaled(Px(img_w), view.scale)
      vh == Scaled(Px(img_h), view.scale)
      img_center_x == view.offx + vw \div 2
      img_center_y == view.offy + vh \div 2
      screen_center_x == Px(screen_w) \div 2
      screen_center_y == Px(screen_h) \div 2
      max_dev_x == Abs(Px(screen_w) - vw) \div 2
      max_dev_y == Abs(Px(screen_h) - vh) \div 2
      clamped_center_x == Clamp(img_center_x, screen_center_x - max_dev_x,
                                screen_center_x + max_dev_x)
      clamped_center_y == Clamp(img_center_y, screen_center_y - max_dev_y,
                                screen_center_y + max_dev_y)
  IN  ViewParams(view.scale, clamped_center_x - vw \div 2,
                 clamped_center_y - vh \div 2)

\* view_math.recompute_view_anchor_zoom with the anchor's image coordinate
\* taken at the new scale (`result.scale` for `old_scale`).
RecomputeViewAnchorZoom_NewScale(view, new_scale, anchor, img_w, img_h) ==
  LET scale == Max(SCALE_FLOOR, new_scale)
      wx == Unscaled(Px(anchor[1]) - view.offx, scale)
      wy == Unscaled(Px(anchor[2]) - view.offy, scale)
  IN  ViewParams(scale, Px(anchor[1]) - Scaled(wx, scale),
                 Px(anchor[2]) - Scaled(wy, scale))

\* view_math.recompute_view_anchor_zoom; anchor is <<ax, ay>> in pixels
RecomputeViewAnchorZoom(view, new_scale, anchor, img_w, img_h) ==
  LET old_scale == IF view.scale # 0 /\ view.scale >= SCALE_EPS
                     THEN view.scale ELSE SCALE_EPS
      wx == Unscaled(Px(anchor[1]) - view.offx, old_scale)
      wy == Unscaled(Px(anchor[2]) - view.offy, old_scale)
      scale == Max(SCALE_FLOOR, new_scale)
  IN  ViewParams(scale, Px(anchor[1]) - Scaled(wx, scale),
                 Px(anchor[2]) - Scaled(wy, scale))

\* view_math.view_for_1to1_centered
ViewFor1to1Centered(img_w, img_h, screen_w, screen_h) ==
  CenterViewFor(ScaleUnit, img_w, img_h, screen_w, screen_h)

\* view_math.sanitize_view
SanitizeView(view, img_w, img_h, screen_w, screen_h) ==
  LET centered == CenterViewFor(view.scale, img_w, img_h, screen_w, screen_h)
      centered_1to1 == ViewFor1to1Centered(img_w, img_h, screen_w, screen_h)
  IN  IF Abs(view.offx) < Px(NEAR_ZERO_PX) /\ Abs(view.offy) < Px(NEAR_ZERO_PX)
        THEN centered
        ELSE IF \/ Abs(view.offx) < Px(NEAR_ZERO_PX) /\ Abs(view.offy) > Px(FAR_PX)
                \/ Abs(view.offy) < Px(NEAR_ZERO_PX) /\ Abs(view.offx) > Px(FAR_PX)
          THEN centered
          ELSE IF /\ Abs(view.scale - ScaleUnit) < SCALE_TOLERANCE
                  /\ \/ Abs(view.offx - centered_1to1.offx) > Px(FAR_PX)
                     \/ Abs(view.offy - centered_1to1.offy) > Px(FAR_PX)
            THEN centered_1to1
            ELSE ClampPan(view, img_w, img_h, screen_w, screen_h)

\* state.view_memory / state.user_zoom_memory: dicts from path to ViewParams
NoMemory == [q \in {} |-> ViewParams0]
MemPut(mem, p, v) == [q \in DOMAIN mem \cup {p} |-> IF q = p THEN v ELSE mem[q]]

\* The positions of the mouse (rl.GetMousePosition): the middle of the
\* screen, and MouseStep pixels to the right of it.
MouseStep == 10
MouseCentre == <<ScreenW \div 2, ScreenH \div 2>>
MousePositions == {MouseCentre, <<MouseCentre[1] + MouseStep, MouseCentre[2]>>}

\* zoom_state_cycle: 0 = 1:1, 1 = fit, 2 = user (custom)
ZOOM_1TO1 == 0
ZOOM_FIT == 1
ZOOM_USER == 2

\* The closures preload_neighbors and process_thumb_queue hand to submit.
\* origin names the call that created the closure (observation only).
CurrentCallback(old_index, origin) ==
  [kind |-> "current", old_index |-> old_index, origin |-> origin]
NeighborCallback == [kind |-> "neighbor", old_index |-> 0, origin |-> "preload"]
ThumbCallback == [kind |-> "thumb", old_index |-> 0, origin |-> "thumbs"]

\* AppState() as main() leaves it before the first preload_neighbors call.
\* elapsed holds now() - t0 of each running timer, in ticks; open_anim_t0 is
\* 0 (the literal 0.0: tween not started) or 1 (a timestamp of now()).
\* mouse is main()'s local `mouse` of the last frame. The views kept for
\* drawing only (waiting_prev_view, switch_anim_prev_view) are left out.
AppState0 ==
  [current_dir_images |-> DirImages,
   index |-> 0,
   cache |-> ImageCache(NoTextureInfo, NoTextureInfo, NoTextureInfo),
   to_unload |-> <<>>,
   gpu_live |-> {},
   thumb_cache |-> <<>>,
   thumb_queue |-> <<>>,
   loading_current |-> FALSE,
   waiting_for_switch |-> FALSE,
   waiting_prev_snapshot |-> NoTextureInfo,
   pending_target_index |-> NoIndex,
   pending_neighbors_load |-> FALSE,
   pending_switch_duration_ms |-> ANIM_SWITCH_KEYS_MS,
   open_anim_active |-> TRUE,
   open_anim_t0 |-> 0,
   switch_anim_active |-> FALSE,
   switch_anim_duration_ms |-> 0,
   switch_anim_direction |-> 0,
   switch_anim_prev_tex |-> NoTextureInfo,
   switch_queue |-> <<>>,
   zoom_anim_active |-> FALSE,
   toggle_zoom_active |-> FALSE,
   is_panning |-> FALSE,
   pan_start_mouse |-> <<0, 0>>,
   pan_start_offset |-> <<0, 0>>,
   mouse |-> MouseCentre,
   view |-> ViewParams0,
   last_fit_view |-> ViewParams0,
   zoom_state_cycle |-> ZOOM_FIT,
   is_zoomed |-> FALSE,
   view_memory |-> NoMemory,
   user_zoom_memory |-> NoMemory,
   zoom_anim_from |-> ViewParams0,
   zoom_anim_to |-> ViewParams0,
   toggle_zoom_from |-> ViewParams0,
   toggle_zoom_to |-> ViewParams0,
   toggle_zoom_target_state |-> 0,
   gallery_target_index |-> NoIndex,
   elapsed |-> [open |-> 0, switch |-> 0, zoom |-> 0, toggle |-> 0, wheel |-> 0]]

\* An entry of state.switch_queue: the tuple (direction, duration_ms)
SwitchRequest(direction, duration_ms) ==
  [direction |-> direction, duration_ms |-> duration_ms]
\* last_pop before any request was dequeued
NoPop == SwitchRequest(0, 0)

\* observed before any input and any decode: last_request is the direction
\* of the last navigation request handed to switch_to, thumb_errors the
\* paths whose GALLERY decode was answered with an error.
NothingObserved == [last_request |-> 0, thumb_errors |-> {}]

\* The element of a one-element set
Only(S) == CHOOSE x \in S : TRUE

\* calc while no view function is called on its own
NoCalc == [fn |-> "none"]

\* ------------------------------------------------- AnimationController

\* class AnimationType(Enum)
AnimationTypes == {"OPEN", "SWITCH", "ZOOM", "TOGGLE_ZOOM", "BG_FADE"}

\* `on_complete` None
NoCallback == 0

\* An Animation object: id tells the objects apart, is_complete is the value
\* of its property (progress >= 1.0 or finished).
Animation(id, type, is_complete) ==
  [id |-> id, type |-> type, is_complete |-> is_complete]

\* AnimationController.__init__; started counts the start calls made and
\* calls lists the callback invocations (callback, animation passed to it).
NewController ==
  [animations |-> <<>>,
   on_complete_callbacks |-> [t \in AnimationTypes |-> NoCallback],
   started |-> 0,
   calls |-> <<>>]

\* AnimationController.get_animation: the id of the running animation of
\* the type, 0 for None
GetAnimation(c, anim_type) ==
  IF \E i \in DOMAIN c.animations : c.animations[i].type = anim_type
    THEN c.animations[CHOOSE i \in DOMAIN c.animations :
                        /\ c.animations[i].type = anim_type
                        /\ \A j \in DOMAIN c.animations :
                             c.animations[j].type = anim_type => i <= j].id
    ELSE 0

\* AnimationController.start without the removal of the running animation
\* of the same type.
ControllerStart_KeepsExisting(c, animation, on_complete) ==
  [c EXCEPT !.animations = Append(@, animation),
            !.on_complete_callbacks =
                IF on_complete # NoCallback
                  THEN [@ EXCEPT ![animation.type] = on_complete]
                  ELSE @]

\* AnimationController.start(animation, on_complete)
ControllerStart(c, animation, on_complete) ==
  [c EXCEPT !.animations =
                Append(SelectSeq(@, LAMBDA a : a.type # animation.type), animation),
            !.on_complete_callbacks =
                IF on_complete # NoCallback
                  THEN [@ EXCEPT ![animation.type] = on_complete]
                  ELSE @]

\* AnimationController.cancel(anim_type)
ControllerCancel(c, anim_type) ==
  [c EXCEPT !.animations = SelectSeq(@, LAMBDA a : a.type # anim_type),
            !.on_complete_callbacks = [@ EXCEPT ![anim_type] = NoCallback]]

\* AnimationController.cancel_all()
ControllerCancelAll(c) ==
  [c EXCEPT !.animations = <<>>,
            !.on_complete_callbacks = [t \in AnimationTypes |-> NoCallback]]

\* AnimationController.update: `for anim in self._animations` from the i-th
\* animation of the list on, still_running collected so far
RECURSIVE ControllerUpdateLoop(_, _, _, _)
ControllerUpdateLoop(c, anims, i, still_running) ==
  IF i > Len(anims)
    THEN [c EXCEPT !.animations = still_running]
    ELSE LET anim == anims[i]
             callback == c.on_complete_callbacks[anim.type]
         IN  IF anim.is_complete
               THEN ControllerUpdateLoop(
                      [c EXCEPT !.on_complete_callbacks =
                                    [@ EXCEPT ![anim.type] = NoCallback],
                                !.calls =
                                    IF callback # NoCallback
                                      THEN Append(@, [callback |-> callback,
                                                      animation |-> anim.id])
                                      ELSE @],
                      anims, i + 1, still_running)
               ELSE ControllerUpdateLoop(c, anims, i + 1,
                                         Append(still_running, anim))

\* AnimationController.update()
ControllerUpdate(c) == ControllerUpdateLoop(c, c.animations, 1, <<>>)

\* A handler works on the AppState record extended with the loader's task
\* queue and the clock, which submit() changes.
Env == state @@ [task_queue |-> task_queue, clock |-> clock]

Commit(s) ==
  \E after \in {s} :
    /\ state' = [f \in DOMAIN state |-> after[f]]
    /\ task_queue' = after.task_queue
    /\ clock' = after.clock

\* The latest timestamp of the queued tasks (0 for an empty queue)
RECURSIVE LatestTimestamp(_)
LatestTimestamp(queue) ==
  IF queue = <<>> THEN 0
  ELSE Max(Head(queue).timestamp, LatestTimestamp(Tail(queue)))

\* state.async_loader.submit(path, priority, callback) within a handler.
\* now() is later than the timestamp of every task still queued, and
\* timestamps are compared between queued tasks only (LoadTask.__lt__): the
\* viewer keeps them relative to the queue.
SubmitIn(s, path, priority, callback) ==
  [s EXCEPT !.task_queue =
      SubmitTo(@, LatestTimestamp(s.task_queue), path, priority, callback)]

\* `(now() - t0) / (duration_ms / 1000.0) >= 1.0`
Elapsed(s, timer, duration_ms) == s.elapsed[timer] * TickMs >= duration_ms
\* `t = (now() - t0) / (duration_ms / 1000.0)`
TweenT(s, timer, duration_ms) ==
  (s.elapsed[timer] * TickMs * ScaleUnit) \div duration_ms

\* ------------------------------------------------------ views of the state

\* imagura2.compute_fit_view(state, frac)
ComputeFitView(s, frac) ==
  LET ti == s.cache.curr
  IN  IF ti = NoTextureInfo
        THEN ViewParams0
        ELSE CenterViewFor(ComputeFitScale(ti.w, ti.h, ScreenW, ScreenH, frac),
                           ti.w, ti.h, ScreenW, ScreenH)

\* imagura2.clamp_pan(view, img, screenW, screenH)
ClampPanTo(view, ti) == ClampPan(view, ti.w, ti.h, ScreenW, ScreenH)

\* imagura2.sanitize_view(state, view, ti)
SanitizeViewFor(view, ti) == SanitizeView(view, ti.w, ti.h, ScreenW, ScreenH)

\* imagura2.view_for_1to1_centered(state)
ViewFor1to1(s) ==
  LET ti == s.cache.curr
  IN  IF ti = NoTextureInfo
        THEN s.view
        ELSE ViewFor1to1Centered(ti.w, ti.h, ScreenW, ScreenH)

\* save_view_for_path with the sanitizing left out.
SaveViewForPath_Raw(s, path, view) ==
  IF s.cache.curr = NoTextureInfo \/ path = ""
    THEN s
    ELSE [s EXCEPT !.view_memory = MemPut(@, path, view)]

\* save_view_for_path(state, path, view)
SaveViewForPath(s, path, view) ==
  IF s.cache.curr = NoTextureInfo \/ path = ""
    THEN s
    ELSE [s EXCEPT !.view_memory =
            MemPut(@, path, SanitizeViewFor(view, s.cache.curr))]

\* `state.is_zoomed = (view.scale > state.last_fit_view.scale)`
IsZoomed(s, view) == view.scale > s.last_fit_view.scale

\* ----------------------------------------------------- textures and thumbs

\* unload_texture_deferred
UnloadTextureDeferred(s, ti) ==
  IF ti = NoTextureInfo
    THEN s
    ELSE IF ti.tex > 0 THEN [s EXCEPT !.to_unload = Append(@, ti.tex)] ELSE s

\* rl.LoadTextureFromImage: the id of the texture the next upload creates.
\* gpu_live holds the textures uploaded and not unloaded; the driver hands
\* out the lowest id that is free.
FreshTexture(s) ==
  CHOOSE id \in 1..(Cardinality(s.gpu_live) + 1) :
    /\ id \notin s.gpu_live
    /\ \A j \in 1..(id - 1) : j \in s.gpu_live

\* process_deferred_unloads: pop and rl.UnloadTexture every queued texture
ProcessDeferredUnloadsIn(s) ==
  [s EXCEPT !.gpu_live = @ \ {s.to_unload[i] : i \in DOMAIN s.to_unload},
            !.to_unload = <<>>]

\* `p in state.thumb_cache`
InThumbCache(cache, p) == \E i \in DOMAIN cache : cache[i].src_path = p
InSeq(q, p) == \E i \in DOMAIN q : q[i] = p

\* `state.thumb_cache[p] = bt` followed by move_to_end(p): the entry that is
\* written becomes the newest one.
ThumbCachePut_MoveToEnd(cache, p, bt) ==
  Append(SelectSeq(cache, LAMBDA e : e.src_path # p), bt)

\* `state.thumb_cache[p] = bt` on the OrderedDict: an existing key keeps its
\* place, a new key goes last
ThumbCachePut(cache, p, bt) ==
  IF InThumbCache(cache, p)
    THEN [i \in DOMAIN cache |-> IF cache[i].src_path = p THEN bt ELSE cache[i]]
    ELSE Append(cache, bt)

\* schedule_thumbs: the `for i in range(lo, hi + 1)` loop from i on
RECURSIVE ScheduleThumbsLoop(_, _, _)
ScheduleThumbsLoop(s, i, hi) ==
  IF i > hi
    THEN s
    ELSE LET p == s.current_dir_images[i + 1]
         IN  IF ~InThumbCache(s.thumb_cache, p) /\ ~InSeq(s.thumb_queue, p)
               THEN ScheduleThumbsLoop([s EXCEPT !.thumb_queue = Append(@, p)],
                                       i + 1, hi)
               ELSE ScheduleThumbsLoop(s, i + 1, hi)

\* schedule_thumbs
ScheduleThumbs(s, around_index) ==
  LET n == Len(s.current_dir_images)
  IN  IF n = 0
        THEN s
        ELSE ScheduleThumbsLoop(s, Max(0, around_index - THUMB_PRELOAD_SPAN),
                                Min(n - 1, around_index + THUMB_PRELOAD_SPAN))

\* ------------------------------------------ preload_neighbors, callbacks

\* A callback uploads at most one texture: tex is its id, FreshTexture of
\* the state the callback is entered in. The GPU upload is taken to succeed.

\* image_to_textureinfo(img, path)
ImageToTextureInfo(tex, path) == TextureInfo(tex, ImgW, ImgH, path)

\* on_current_loaded's error branch without `state.loading_current = False`.
OnCurrentLoadedError_KeepsLoading(s, path, tex) ==
  [s EXCEPT !.gpu_live = @ \cup {tex},
            !.cache.curr = TextureInfo(tex, PLACEHOLDER_SIZE, PLACEHOLDER_SIZE, path)]

\* on_current_loaded, `if error:` -- the 2x2 placeholder replaces cache.curr
OnCurrentLoadedError(s, path, tex) ==
  [s EXCEPT !.loading_current = FALSE,
            !.gpu_live = @ \cup {tex},
            !.cache.curr = TextureInfo(tex, PLACEHOLDER_SIZE, PLACEHOLDER_SIZE, path)]

\* on_current_loaded's classification of a restored view with every scale
\* that is not 1:1 taken for fit.
RestoredZoomState_NoCustom(scale, fit_scale) ==
  IF Abs(scale - ScaleUnit) < SCALE_TOLERANCE THEN ZOOM_1TO1 ELSE ZOOM_FIT

\* on_current_loaded, `if abs(state.view.scale - 1.0) < 0.01: ... elif ...`
RestoredZoomState(scale, fit_scale) ==
  IF Abs(scale - ScaleUnit) < SCALE_TOLERANCE
    THEN ZOOM_1TO1
    ELSE IF Abs(scale - fit_scale) < SCALE_TOLERANCE
      THEN ZOOM_FIT
      ELSE ZOOM_USER

\* on_current_loaded, the view of the image that arrived: the fit view,
\* and the view kept for the path if there is one
RestoreView(s, path) ==
  LET s1 == [s EXCEPT !.last_fit_view = ComputeFitView(s, FIT_DEFAULT_SCALE)]
  IN  IF path \in DOMAIN s1.view_memory
        THEN LET view == SanitizeViewFor(s1.view_memory[path], s1.cache.curr)
             IN  [s1 EXCEPT !.view = view,
                            !.is_zoomed = IsZoomed(s1, view),
                            !.zoom_state_cycle =
                                RestoredZoomState(view.scale, s1.last_fit_view.scale)]
        ELSE [s1 EXCEPT !.view = s1.last_fit_view,
                        !.is_zoomed = FALSE,
                        !.zoom_state_cycle = ZOOM_FIT]

\* on_current_loaded, the decoded image arrived
OnCurrentLoadedOk(s, path, old_index, tex) ==
  LET s0 == [s EXCEPT !.cache.curr = ImageToTextureInfo(tex, path),
                      !.gpu_live = @ \cup {tex},
                      !.loading_current = FALSE]
      s1 == RestoreView(s0, path)
      direction == IF s1.pending_target_index > old_index THEN 1 ELSE 0 - 1
      s2 == IF s1.waiting_for_switch /\ s1.pending_target_index # NoIndex
              THEN LET a == IF s1.waiting_prev_snapshot # NoTextureInfo
                              THEN [s1 EXCEPT
                                      !.switch_anim_prev_tex = s1.waiting_prev_snapshot,
                                      !.switch_anim_active = TRUE,
                                      !.elapsed.switch = 0,
                                      !.switch_anim_direction = direction,
                                      !.switch_anim_duration_ms =
                                          s1.pending_switch_duration_ms]
                              ELSE s1
                   IN  [a EXCEPT !.waiting_for_switch = FALSE,
                                 !.waiting_prev_snapshot = NoTextureInfo,
                                 !.pending_target_index = NoIndex,
                                 !.pending_switch_duration_ms = ANIM_SWITCH_KEYS_MS]
              ELSE s1
  IN  IF s2.open_anim_active /\ s2.open_anim_t0 = 0
        THEN [s2 EXCEPT !.open_anim_t0 = 1,
                        !.elapsed.open = 0,
                        !.pending_neighbors_load = TRUE]
        ELSE s2

\* on_current_loaded(path, img, error), closure over old_index
OnCurrentLoaded(s, path, error, old_index, tex) ==
  IF error # None
    THEN OnCurrentLoadedError(s, path, tex)
    ELSE OnCurrentLoadedOk(s, path, old_index, tex)

\* state.current_dir_images.index(path), 0-based; NoIndex for ValueError
IndexOfPath(images, path) ==
  IF \E i \in DOMAIN images : images[i] = path
    THEN (CHOOSE i \in DOMAIN images :
            /\ images[i] = path
            /\ \A j \in DOMAIN images : images[j] = path => i <= j) - 1
    ELSE NoIndex

\* on_neighbor_loaded storing every image before index in cache.prev and
\* every image after it in cache.next (`<` and `>` for the two `==`).
OnNeighborLoaded_AnySide(s, path, error, tex) ==
  LET idx == IndexOfPath(s.current_dir_images, path)
      tex_info == ImageToTextureInfo(tex, path)
      s1 == [s EXCEPT !.gpu_live = @ \cup {tex}]
  IN  IF error # None \/ idx = NoIndex
        THEN s
        ELSE IF idx < s.index
          THEN [UnloadTextureDeferred(s1, s.cache.prev)
                  EXCEPT !.cache.prev = tex_info]
          ELSE IF idx > s.index
            THEN [UnloadTextureDeferred(s1, s.cache.next)
                    EXCEPT !.cache.next = tex_info]
            ELSE s1

\* on_neighbor_loaded(path, img, error)
OnNeighborLoaded(s, path, error, tex) ==
  LET idx == IndexOfPath(s.current_dir_images, path)
      tex_info == ImageToTextureInfo(tex, path)
      s1 == [s EXCEPT !.gpu_live = @ \cup {tex}]
  IN  IF error # None \/ idx = NoIndex
        THEN s
        ELSE IF idx = s.index - 1
          THEN [UnloadTextureDeferred(s1, s.cache.prev)
                  EXCEPT !.cache.prev = tex_info]
          ELSE IF idx = s.index + 1
            THEN [UnloadTextureDeferred(s1, s.cache.next)
                    EXCEPT !.cache.next = tex_info]
            ELSE s1

\* on_thumb_loaded(path, img, error); build_thumb_from_image makes a texture
OnThumbLoaded(s, path, error, tex) ==
  IF error # None
    THEN [s EXCEPT !.thumb_cache =
            ThumbCachePut(@, path, BitmapThumb(NoTexture, path, FALSE))]
    ELSE [s EXCEPT !.gpu_live = @ \cup {tex},
                   !.thumb_cache =
                     ThumbCachePut(@, path, BitmapThumb(tex, path, TRUE))]

\* preload_neighbors clamping to [1, n - 1] (`clamp(new_index, 1, n - 1)`).
PreloadNeighbors_ClampFromOne(s, new_index_arg, skip_neighbors, origin) ==
  LET n == Len(s.current_dir_images)
      new_index == Clamp(new_index_arg, 1, n - 1)
      current_path == s.current_dir_images[new_index + 1]
      old_index == s.index
      s1 == [s EXCEPT !.index = new_index,
                      !.loading_current = IsHeavy(current_path)]
      s2 == SubmitIn(s1, current_path, CURRENT, CurrentCallback(old_index, origin))
      s3 == IF new_index - 1 >= 0
              THEN SubmitIn(s2, s.current_dir_images[new_index],
                            NEIGHBOR, NeighborCallback)
              ELSE s2
      s4 == IF new_index + 1 < n
              THEN SubmitIn(s3, s.current_dir_images[new_index + 2],
                            NEIGHBOR, NeighborCallback)
              ELSE s3
  IN  IF n = 0
        THEN s
        ELSE IF skip_neighbors THEN s2 ELSE ScheduleThumbs(s4, new_index)

\* preload_neighbors(state, new_index, skip_neighbors); origin names the
\* caller in the closure (observation only)
PreloadNeighbors(s, new_index_arg, skip_neighbors, origin) ==
  LET n == Len(s.current_dir_images)
      new_index == Clamp(new_index_arg, 0, n - 1)
      current_path == s.current_dir_images[new_index + 1]
      old_index == s.index
      s1 == [s EXCEPT !.index = new_index,
                      !.loading_current = IsHeavy(current_path)]
      s2 == SubmitIn(s1, current_path, CURRENT, CurrentCallback(old_index, origin))
      s3 == IF new_index - 1 >= 0
              THEN SubmitIn(s2, s.current_dir_images[new_index],
                            NEIGHBOR, NeighborCallback)
              ELSE s2
      s4 == IF new_index + 1 < n
              THEN SubmitIn(s3, s.current_dir_images[new_index + 2],
                            NEIGHBOR, NeighborCallback)
              ELSE s3
  IN  IF n = 0
        THEN s
        ELSE IF skip_neighbors THEN s2 ELSE ScheduleThumbs(s4, new_index)

\* ------------------------------------------------------------ switching

\* switch_to appending past the literal limit (`<=` for `<`).
SwitchToEnqueue_OffByOne(q, direction, anim_duration_ms) ==
  IF Len(q) <= SWITCH_QUEUE_LIMIT
    THEN Append(q, SwitchRequest(direction, anim_duration_ms))
    ELSE q

\* switch_to, `if state.switch_anim_active:` -- the bounded append
SwitchToEnqueue(q, direction, anim_duration_ms) ==
  IF Len(q) < SWITCH_QUEUE_LIMIT
    THEN Append(q, SwitchRequest(direction, anim_duration_ms))
    ELSE q

\* switch_to, `for ti in [old_prev, old_next, old_curr]` from position i on
RECURSIVE SwitchToUnloadLoop(_, _, _)
SwitchToUnloadLoop(s, olds, i) ==
  IF i > Len(olds)
    THEN s
    ELSE IF olds[i] # NoTextureInfo /\ olds[i] # s.waiting_prev_snapshot
      THEN SwitchToUnloadLoop(UnloadTextureDeferred(s, olds[i]), olds, i + 1)
      ELSE SwitchToUnloadLoop(s, olds, i + 1)

\* switch_to(state, idx, animate, anim_duration_ms)
SwitchTo(s, idx, animate, anim_duration_ms) ==
  LET direction == IF idx > s.index THEN 1 ELSE 0 - 1
      old_prev == s.cache.prev
      old_next == s.cache.next
      old_curr == IF ~animate THEN s.cache.curr ELSE NoTextureInfo
      s1 == [s EXCEPT
               !.is_panning = FALSE,
               !.waiting_prev_snapshot =
                   IF animate /\ s.cache.curr # NoTextureInfo
                     THEN TextureInfo(s.cache.curr.tex, s.cache.curr.w,
                                      s.cache.curr.h, s.cache.curr.path)
                     ELSE NoTextureInfo,
               !.waiting_for_switch = TRUE,
               !.pending_target_index = idx,
               !.pending_switch_duration_ms = anim_duration_ms,
               !.cache.prev = NoTextureInfo,
               !.cache.next = NoTextureInfo,
               !.cache.curr = IF ~animate THEN NoTextureInfo ELSE @]
      s2 == SwitchToUnloadLoop(s1, <<old_prev, old_next, old_curr>>, 1)
  IN  IF idx = s.index
        THEN s
        ELSE IF s.switch_anim_active
          THEN [s EXCEPT !.switch_queue =
                  SwitchToEnqueue(@, direction, anim_duration_ms)]
          ELSE PreloadNeighbors(s2, idx, FALSE, "switch")

\* process_switch_queue popping the newest request (pop for popleft).
SwitchQueuePop_Newest(q) == <<q[Len(q)], SubSeq(q, 1, Len(q) - 1)>>

\* process_switch_queue: `state.switch_queue.popleft()`; <<request, rest>>
SwitchQueuePop(q) == <<Head(q), Tail(q)>>

\* process_switch_queue without the clamp of the target (`state.index + 1`
\* for `min(n - 1, state.index + 1)`).
ProcessSwitchQueueIn_Unclamped(s) ==
  IF s.switch_anim_active \/ Len(s.switch_queue) = 0
    THEN s
    ELSE LET popped == SwitchQueuePop(s.switch_queue)
             target_idx == IF popped[1].direction > 0
                             THEN s.index + 1
                             ELSE s.index - 1
             s1 == [s EXCEPT !.switch_queue = popped[2]]
         IN  IF target_idx # s.index
               THEN SwitchTo(s1, target_idx, TRUE, popped[1].duration_ms)
               ELSE s1

\* process_switch_queue
ProcessSwitchQueueIn(s) ==
  IF s.switch_anim_active \/ Len(s.switch_queue) = 0
    THEN s
    ELSE LET popped == SwitchQueuePop(s.switch_queue)
             n == Len(s.current_dir_images)
             target_idx == IF popped[1].direction > 0
                             THEN Min(n - 1, s.index + 1)
                             ELSE Max(0, s.index - 1)
             s1 == [s EXCEPT !.switch_queue = popped[2]]
         IN  IF target_idx # s.index
               THEN SwitchTo(s1, target_idx, TRUE, popped[1].duration_ms)
               ELSE s1

\* reconcile_gallery_target
ReconcileGalleryTargetIn(s) ==
  LET n == Len(s.current_dir_images)
      tgt == Clamp(s.gallery_target_index, 0, n - 1)
      step == IF tgt > s.index THEN 1 ELSE 0 - 1
  IN  IF s.gallery_target_index = NoIndex
        THEN s
        ELSE IF s.elapsed.wheel * TickMs < GALLERY_SETTLE_DEBOUNCE_MS
          THEN s
          ELSE IF s.switch_anim_active \/ s.waiting_for_switch \/ s.loading_current
            THEN s
            ELSE IF n = 0 \/ s.index = tgt
              THEN [s EXCEPT !.gallery_target_index = NoIndex,
                             !.elapsed.wheel = 0]
              ELSE SwitchTo(s, s.index + step, TRUE, ANIM_SWITCH_GALLERY_MS)

\* process_thumb_queue: the `while budget > 0 and state.thumb_queue` loop
RECURSIVE ProcessThumbQueueLoop(_, _)
ProcessThumbQueueLoop(s, budget) ==
  IF budget > 0 /\ Len(s.thumb_queue) > 0
    THEN LET p == Head(s.thumb_queue)
             s1 == [s EXCEPT !.thumb_queue = Tail(@)]
         IN  IF InThumbCache(s1.thumb_cache, p)
               THEN ProcessThumbQueueLoop(s1, budget)
               ELSE ProcessThumbQueueLoop(
                      SubmitIn([s1 EXCEPT !.thumb_cache =
                                  ThumbCachePut(@, p, BitmapThumb(NoTexture, p, FALSE))],
                               p, GALLERY, ThumbCallback),
                      budget - 1)
    ELSE s

\* process_thumb_queue: `while len(state.thumb_cache) > THUMB_CACHE_LIMIT`,
\* popitem(last=False) and rl.UnloadTexture at once
RECURSIVE ThumbEvictLoop(_)
ThumbEvictLoop(s) ==
  IF Len(s.thumb_cache) > THUMB_CACHE_LIMIT
    THEN LET bt == Head(s.thumb_cache)
         IN  ThumbEvictLoop(
               [s EXCEPT !.thumb_cache = Tail(@),
                         !.gpu_live = @ \ {bt.texture}])
    ELSE s

\* process_thumb_queue
ProcessThumbQueueIn(s) ==
  ThumbEvictLoop(ProcessThumbQueueLoop(s, THUMB_BUILD_BUDGET_PER_FRAME))

\* ------------------------------------------------------- delete, reload

\* `state.thumb_cache.pop(path)`: the cache without path's entry
ThumbCachePop(cache, p) ==
  SelectSeq(cache, LAMBDA bt : bt.src_path # p)

\* delete_current_image / reload_current_image, `if path in
\* state.thumb_cache:` -- the entry is popped and its texture, if it has one,
\* is handed to rl.UnloadTexture at once
DropThumb(s, path) ==
  IF InThumbCache(s.thumb_cache, path)
    THEN LET bt == CHOOSE e \in {s.thumb_cache[i] : i \in DOMAIN s.thumb_cache} :
                     e.src_path = path
         IN  [s EXCEPT !.thumb_cache = ThumbCachePop(@, path),
                       !.gpu_live = IF bt.texture # NoTexture
                                      THEN @ \ {bt.texture} ELSE @]
    ELSE s

\* delete_current_image / reload_current_image: `if getattr(ti.tex, 'id',
\* 0): state.to_unload.append(ti.tex)` for the slots tis[i..]
RECURSIVE AppendToUnloadLoop(_, _, _)
AppendToUnloadLoop(s, tis, i) ==
  IF i > Len(tis)
    THEN s
    ELSE IF tis[i] # NoTextureInfo /\ tis[i].tex > 0
      THEN AppendToUnloadLoop([s EXCEPT !.to_unload = Append(@, tis[i].tex)],
                              tis, i + 1)
      ELSE AppendToUnloadLoop(s, tis, i + 1)

\* `state.current_dir_images.pop(old_index)`, old_index 0-based
ImagesPop(images, old_index) ==
  SubSeq(images, 1, old_index) \o SubSeq(images, old_index + 2, Len(images))

\* delete_current_image returns True: delete_to_recycle_bin is taken to
\* succeed
DeleteSucceeds(s) ==
  s.index < Len(s.current_dir_images) /\ Len(s.current_dir_images) # 0

\* delete_current_image
DeleteCurrentImage(s) ==
  LET path == s.current_dir_images[s.index + 1]
      old_index == s.index
      s1 == AppendToUnloadLoop(s, <<s.cache.curr, s.cache.prev, s.cache.next>>, 1)
      s2 == [s1 EXCEPT !.cache = ImageCache(NoTextureInfo, NoTextureInfo,
                                            NoTextureInfo)]
      s3 == DropThumb(s2, path)
      s4 == [s3 EXCEPT !.current_dir_images = ImagesPop(@, old_index)]
      n == Len(s4.current_dir_images)
      s5 == [s4 EXCEPT !.index = IF old_index >= n THEN n - 1 ELSE old_index]
      s6 == PreloadNeighbors(s5, s5.index, FALSE, "delete")
      s7 == [s6 EXCEPT !.gallery_target_index = NoIndex, !.elapsed.wheel = 0]
  IN  IF ~DeleteSucceeds(s)
        THEN s
        ELSE IF n = 0 THEN s4 ELSE ScheduleThumbs(s7, s7.index)

\* reload_current_image
ReloadCurrentImage(s) ==
  LET path == s.current_dir_images[s.index + 1]
      s1 == [AppendToUnloadLoop(s, <<s.cache.curr>>, 1)
               EXCEPT !.cache.curr = NoTextureInfo]
      s2 == DropThumb(s1, path)
      s3 == IF ~InSeq(s2.thumb_queue, path)
              THEN [s2 EXCEPT !.thumb_queue = Append(@, path)]
              ELSE s2
  IN  IF s.index >= Len(s.current_dir_images)
        THEN s
        ELSE PreloadNeighbors(s3, s3.index, TRUE, "reload")

\* ----------------------------------------------------------- animations

\* start_zoom_animation(state, target_view)
StartZoomAnimation(s, target_view) ==
  [s EXCEPT !.zoom_anim_active = TRUE,
            !.elapsed.zoom = 0,
            !.zoom_anim_from = ViewParams(s.view.scale, s.view.offx, s.view.offy),
            !.zoom_anim_to = target_view]

\* update_zoom_animation
UpdateZoomAnimationIn(s) ==
  LET t == TweenT(s, "zoom", ANIM_ZOOM_MS)
      t_eased == EaseOutQuad(t)
  IN  IF ~s.zoom_anim_active
        THEN s
        ELSE IF t >= ScaleUnit
          THEN [s EXCEPT !.zoom_anim_active = FALSE,
                         !.elapsed.zoom = 0,
                         !.view = IF s.cache.curr # NoTextureInfo
                                    THEN ClampPanTo(s.zoom_anim_to, s.cache.curr)
                                    ELSE s.zoom_anim_to]
          ELSE [s EXCEPT !.view =
                  ViewParams(Lerp(s.zoom_anim_from.scale, s.zoom_anim_to.scale, t_eased),
                             Lerp(s.zoom_anim_from.offx, s.zoom_anim_to.offx, t_eased),
                             Lerp(s.zoom_anim_from.offy, s.zoom_anim_to.offy, t_eased))]

\* main loop, zoom keys: `new_scale` is the scale asked for
ZoomTo(s, new_scale) ==
  LET nv == ClampPanTo(RecomputeViewAnchorZoom(s.view, new_scale, s.mouse,
                                               s.cache.curr.w, s.cache.curr.h),
                       s.cache.curr)
      s1 == [StartZoomAnimation(s, nv) EXCEPT !.is_zoomed = IsZoomed(s, nv),
                                              !.zoom_state_cycle = ZOOM_USER]
      path == s.current_dir_images[s.index + 1]
  IN  IF s.index < Len(s.current_dir_images)
        THEN [SaveViewForPath(s1, path, nv) EXCEPT
                !.user_zoom_memory = MemPut(@, path, ViewParams(nv.scale, nv.offx, nv.offy))]
        ELSE s1

\* start_toggle_zoom_animation, `{2: 0, 0: 1, 1: 2}[state.zoom_state_cycle]`
\* with two entries exchanged.
NextZoomState_Backwards(zoom_state_cycle) ==
  CASE zoom_state_cycle = ZOOM_USER -> ZOOM_FIT
    [] zoom_state_cycle = ZOOM_1TO1 -> ZOOM_USER
    [] OTHER -> ZOOM_1TO1

\* start_toggle_zoom_animation, `{2: 0, 0: 1, 1: 2}[state.zoom_state_cycle]`
NextZoomState(zoom_state_cycle) ==
  CASE zoom_state_cycle = ZOOM_USER -> ZOOM_1TO1
    [] zoom_state_cycle = ZOOM_1TO1 -> ZOOM_FIT
    [] OTHER -> ZOOM_USER

\* start_toggle_zoom_animation, the target view of next_state
ToggleTarget(s, next_state) ==
  LET no_path == s.index >= Len(s.current_dir_images)
  IN  IF next_state = ZOOM_1TO1
        THEN ViewFor1to1(s)
        ELSE IF next_state = ZOOM_FIT
          THEN s.last_fit_view
          ELSE IF ~no_path
                  /\ s.current_dir_images[s.index + 1] \in DOMAIN s.user_zoom_memory
            THEN s.user_zoom_memory[s.current_dir_images[s.index + 1]]
            ELSE s.last_fit_view

\* start_toggle_zoom_animation
StartToggleZoomAnimation(s) ==
  LET next_state == NextZoomState(s.zoom_state_cycle)
  IN  IF s.toggle_zoom_active \/ s.cache.curr = NoTextureInfo
        THEN s
        ELSE [s EXCEPT !.toggle_zoom_active = TRUE,
                       !.elapsed.toggle = 0,
                       !.toggle_zoom_from =
                           ViewParams(s.view.scale, s.view.offx, s.view.offy),
                       !.toggle_zoom_to = ToggleTarget(s, next_state),
                       !.toggle_zoom_target_state = next_state]

\* update_toggle_zoom_animation, `if t >= 1.0:` writing the user memory
\* whatever the landing state.
ToggleZoomFinished_AlwaysUser(s) ==
  LET view == ClampPanTo(s.toggle_zoom_to, s.cache.curr)
      s1 == [s EXCEPT !.toggle_zoom_active = FALSE,
                      !.elapsed.toggle = 0,
                      !.view = view,
                      !.zoom_state_cycle = s.toggle_zoom_target_state,
                      !.is_zoomed = IsZoomed(s, view)]
      path == s1.current_dir_images[s1.index + 1]
  IN  IF s1.index < Len(s1.current_dir_images)
        THEN [SaveViewForPath(s1, path, s1.view) EXCEPT
                !.user_zoom_memory = MemPut(@, path, s1.view)]
        ELSE s1

\* update_toggle_zoom_animation, `if t >= 1.0:` -- the tween lands
ToggleZoomFinished(s) ==
  LET view == ClampPanTo(s.toggle_zoom_to, s.cache.curr)
      s1 == [s EXCEPT !.toggle_zoom_active = FALSE,
                      !.elapsed.toggle = 0,
                      !.view = view,
                      !.zoom_state_cycle = s.toggle_zoom_target_state,
                      !.is_zoomed = IsZoomed(s, view)]
      path == s1.current_dir_images[s1.index + 1]
      s2 == SaveViewForPath(s1, path, s1.view)
  IN  IF s1.index < Len(s1.current_dir_images)
        THEN IF s2.zoom_state_cycle = ZOOM_USER
               THEN [s2 EXCEPT !.user_zoom_memory =
                       MemPut(@, path, ViewParams(s2.view.scale, s2.view.offx,
                                                  s2.view.offy))]
               ELSE s2
        ELSE s1

\* update_toggle_zoom_animation
UpdateToggleZoomAnimationIn(s) ==
  LET t == TweenT(s, "toggle", ANIM_TOGGLE_ZOOM_MS)
      t_eased == EaseInOutCubic(t)
      cur == ViewParams(Lerp(s.toggle_zoom_from.scale, s.toggle_zoom_to.scale, t_eased),
                        Lerp(s.toggle_zoom_from.offx, s.toggle_zoom_to.offx, t_eased),
                        Lerp(s.toggle_zoom_from.offy, s.toggle_zoom_to.offy, t_eased))
  IN  IF ~s.toggle_zoom_active
        THEN s
        ELSE IF s.cache.curr = NoTextureInfo
          THEN [s EXCEPT !.toggle_zoom_active = FALSE, !.elapsed.toggle = 0]
          ELSE IF t >= ScaleUnit
            THEN ToggleZoomFinished(s)
            ELSE [s EXCEPT !.view = ClampPanTo(cur, s.cache.curr)]

\* render_image: the bookkeeping of the open and switch tweens
RenderImageIn(s) ==
  IF s.cache.curr = NoTextureInfo
    THEN s
    ELSE IF s.open_anim_active
      THEN IF s.open_anim_t0 = 0
             THEN s
             ELSE IF Elapsed(s, "open", ANIM_OPEN_MS)
               THEN LET s1 == [s EXCEPT !.open_anim_active = FALSE,
                                        !.elapsed.open = 0,
                                        !.view = SanitizeViewFor(s.last_fit_view,
                                                                 s.cache.curr)]
                    IN  IF s1.pending_neighbors_load
                          THEN PreloadNeighbors(
                                 [s1 EXCEPT !.pending_neighbors_load = FALSE],
                                 s1.index, FALSE, "open")
                          ELSE s1
               ELSE s
      ELSE IF s.switch_anim_active /\ s.switch_anim_prev_tex # NoTextureInfo
        THEN IF Elapsed(s, "switch", s.switch_anim_duration_ms)
               THEN [UnloadTextureDeferred(s, s.switch_anim_prev_tex)
                       EXCEPT !.switch_anim_active = FALSE,
                              !.switch_anim_prev_tex = NoTextureInfo,
                              !.elapsed.switch = 0,
                              !.view = SanitizeViewFor(s.view, s.cache.curr)]
               ELSE s
        ELSE s

\* ------------------------------------------- the loader-only specification

TaskIds == 1..MaxTasks

InitLoader ==
  /\ task_queue = <<>>
  /\ running = TRUE
  /\ ui_events = <<>>
  /\ wpc = [w \in Workers |-> "loop"]
  /\ wtask = [w \in Workers |-> NoTask]
  /\ wresult = [w \in Workers |-> NoResult]
  /\ clock = 0
  /\ mpc = "idle"
  /\ events_to_process = <<>>
  /\ ev_i = 0
  /\ poll_max = 0
  /\ poll_outcome = "none"
  /\ invoked = [t \in TaskIds |-> 0]
  /\ raised_at = 0
  /\ wfailed = [w \in Workers |-> FALSE]
  /\ state = AppState0
  /\ frame = "none"
  /\ inputs = 0
  /\ anim_requests = 0
  /\ last_pop = NoPop
  /\ observed = NothingObserved
  /\ calc = NoCalc
  /\ controller = NewController

WorkerStep(w) ==
  \/ WorkerLoopEnter(w)
  \/ WorkerLoopExit(w)
  \/ WorkerGet(w)
  \/ WorkerGetEmpty(w)
  \/ WorkerDecodeOk(w)
  \/ WorkerDecodeFail(w)
  \/ WorkerPush(w)

LoaderSubmit == \E p \in LoaderPaths, pr \in Priorities : Submit(p, pr)
LoaderPollBegin ==
  \E m \in PollBudgets : running /\ PollBegin(m) /\ UNCHANGED viewVars
LoaderInvokeReturns == InvokeReturns /\ UNCHANGED viewVars
LoaderInvokeRaises == InvokeRaises /\ UNCHANGED viewVars
LoaderPollReturn == PollReturn /\ UNCHANGED viewVars
LoaderMain ==
  \/ LoaderSubmit
  \/ LoaderPollBegin
  \/ LoaderInvokeReturns
  \/ LoaderInvokeRaises
  \/ LoaderPollReturn

NextLoader ==
  \/ \E w \in Workers : WorkerStep(w)
  \/ LoaderMain
  \/ Shutdown

SpecLoader == InitLoader /\ [][NextLoader]_vars

LoaderPoll ==
  \/ LoaderPollBegin
  \/ LoaderInvokeReturns
  \/ LoaderInvokeRaises
  \/ LoaderPollReturn

\* The loader under fair scheduling: the workers are scheduled and the decode
\* function returns; the main thread keeps calling poll_ui_events.
\* Submissions (of one path, the path playing no part in delivery) and
\* shutdown are free.
LiveSubmit == \E pr \in Priorities : Submit("a.png", pr)

NextLoaderLive ==
  \/ \E w \in Workers : WorkerStep(w)
  \/ LiveSubmit
  \/ LoaderPoll
  \/ Shutdown

SpecLoaderLive ==
  /\ InitLoader /\ [][NextLoaderLive]_vars
  /\ \A w \in Workers : WF_vars(WorkerStep(w))
  /\ WF_vars(LoaderPoll)

\* ------------------------------------------------- the viewer: frame loop

\* User inputs in one behaviour of the viewer, and the worker threads that
\* take tasks while the viewer runs.
MaxInputs == 1
ViewerWorkers == 1

\* main(): the state when the frame loop is entered -- open_anim_active,
\* preload_neighbors(state, start_index, skip_neighbors=True), schedule_thumbs
AfterSetup(images, start_index) ==
  ScheduleThumbs(PreloadNeighbors([AppState0 EXCEPT !.current_dir_images = images]
                                    @@ [task_queue |-> <<>>, clock |-> 0],
                                  start_index, TRUE, "open"),
                 start_index)

InitViewerIn(images, starts) ==
  /\ \E start_index \in starts :
       LET s1 == AfterSetup(images, start_index)
       IN  /\ state = [f \in DOMAIN AppState0 |-> s1[f]]
           /\ task_queue = s1.task_queue
           /\ clock = s1.clock
  /\ running = TRUE
  /\ ui_events = <<>>
  /\ wpc = [w \in Workers |-> "loop"]
  /\ wtask = [w \in Workers |-> NoTask]
  /\ wresult = [w \in Workers |-> NoResult]
  /\ mpc = "idle"
  /\ events_to_process = <<>>
  /\ ev_i = 0
  /\ poll_max = 0
  /\ poll_outcome = "none"
  /\ invoked = [t \in TaskIds |-> 0]
  /\ raised_at = 0
  /\ wfailed = [w \in Workers |-> FALSE]
  /\ frame = "poll"
  /\ inputs = 0
  /\ anim_requests = 0
  /\ last_pop = NoPop
  /\ observed = NothingObserved
  /\ calc = NoCalc
  /\ controller = NewController

InitViewerAt(starts) == InitViewerIn(DirImages, starts)

InitViewer == InitViewerAt(StartIndexes)

\* _worker_loop while the viewer runs: one iteration from `while
\* self.running` to the end of the try block -- task_queue.get returns a
\* task, loader_func(task.path) returns or raises (load_image_cpu_only
\* raises for the files of BadPaths and for a file delete_current_image has
\* moved to the recycle bin). These steps touch the task queue once
\* and the iteration's locals.
WorkerTake(w) ==
  /\ wpc[w] = "loop"
  /\ running
  /\ Len(task_queue) > 0
  /\ LET popped == HeapPop(task_queue)
         failed == \/ popped[1].path \in BadPaths
                   \/ ~InSeq(state.current_dir_images, popped[1].path)
     IN  /\ wtask' = [wtask EXCEPT ![w] = popped[1]]
         /\ task_queue' = popped[2]
         /\ wresult' = [wresult EXCEPT ![w] =
                          IF failed THEN [result |-> None, error |-> "err"]
                          ELSE [result |-> "img", error |-> None]]
         /\ wfailed' = [wfailed EXCEPT ![w] = @ \/ failed]
  /\ wpc' = [wpc EXCEPT ![w] = "push"]
  /\ UNCHANGED <<running, ui_events, clock, pollVars, invoked, raised_at,
                 viewVars>>

ViewerWorkerStep(w) ==
  \/ WorkerTake(w)
  \/ WorkerPush(w)

\* What a frame step leaves alone besides state, task_queue, clock, frame.
FrameUnchanged ==
  UNCHANGED <<running, ui_events, wpc, wtask, wresult, pollVars, obsVars,
              inputs, last_pop, observed, calc,
                 controller>>

\* switch_to calls counted during the running tween; 0 outside a tween
AnimRequests(s, called) ==
  IF ~s.switch_anim_active THEN 0
  ELSE IF called THEN anim_requests + 1 ELSE anim_requests

\* main loop: poll_ui_events(max_events=2 if open_anim_active else 100)
FramePollBegin ==
  /\ frame = "poll"
  /\ PollBegin(IF state.open_anim_active
                 THEN POLL_BUDGET_OPENING ELSE POLL_BUDGET_NORMAL)
  /\ UNCHANGED viewVars

\* The callback of a dispatched event, applied to the AppState
Callback(s, e) ==
  CASE e.callback.kind = "current" ->
         OnCurrentLoaded(s, e.path, e.error, e.callback.old_index,
                         FreshTexture(s))
    [] e.callback.kind = "neighbor" ->
         OnNeighborLoaded(s, e.path, e.error, FreshTexture(s))
    [] e.callback.kind = "thumb" ->
         OnThumbLoaded(s, e.path, e.error, FreshTexture(s))
    [] OTHER -> s

\* poll_ui_events: event.callback(*event.args) for the next drained event
FrameDispatch ==
  /\ frame = "poll"
  /\ Invoke
  /\ state' = Callback(state, CurrentEvent)
  /\ anim_requests' = AnimRequests(state', FALSE)
  /\ observed' = IF CurrentEvent.callback.kind = "thumb" /\ CurrentEvent.error # None
                   THEN [observed EXCEPT !.thumb_errors = @ \cup {CurrentEvent.path}]
                   ELSE observed
  /\ UNCHANGED <<mpc, poll_outcome, obsVars, frame, inputs, last_pop, calc,
                 controller>>

\* poll_ui_events returns to the frame loop
FramePollReturn ==
  /\ frame = "poll"
  /\ PollReturn
  /\ frame' = "unload"
  /\ UNCHANGED <<state, inputs, anim_requests, last_pop, observed, calc,
                 controller>>

\* A frame-loop call that changes the AppState only
FrameCall(s, to) ==
  /\ mpc = "idle"
  /\ Commit(s)
  /\ frame' = to
  /\ anim_requests' = AnimRequests(s, FALSE)
  /\ FrameUnchanged

\* main loop: process_deferred_unloads(state)
FrameDeferredUnloads ==
  /\ frame = "unload"
  /\ FrameCall(ProcessDeferredUnloadsIn(Env), "zoom")

\* main loop: update_zoom_animation(state)
FrameUpdateZoom ==
  /\ frame = "zoom"
  /\ FrameCall(UpdateZoomAnimationIn(Env), "toggle")

\* main loop: update_toggle_zoom_animation(state)
FrameUpdateToggle ==
  /\ frame = "toggle"
  /\ FrameCall(UpdateToggleZoomAnimationIn(Env), "switchq")

\* main loop: process_switch_queue(state)
FrameSwitchQueue ==
  /\ frame = "switchq"
  /\ mpc = "idle"
  /\ Commit(ProcessSwitchQueueIn(Env))
  /\ frame' = "reconcile"
  /\ last_pop' = IF state.switch_anim_active \/ Len(state.switch_queue) = 0
                   THEN last_pop
                   ELSE SwitchQueuePop(state.switch_queue)[1]
  /\ anim_requests' = AnimRequests(state', FALSE)
  /\ UNCHANGED <<running, ui_events, wpc, wtask, wresult, pollVars, obsVars,
                 inputs, observed, calc,
                 controller>>

\* main loop: reconcile_gallery_target(state)
FrameReconcile ==
  /\ frame = "reconcile"
  /\ FrameCall(ReconcileGalleryTargetIn(Env), "thumbs")

\* main loop calling process_thumb_queue whether or not the open animation
\* is active.
FrameThumbs_Unguarded ==
  /\ frame = "thumbs"
  /\ FrameCall(ProcessThumbQueueIn(Env), "input")

\* main loop: `if not state.open_anim_active: process_thumb_queue(state)`
FrameThumbs ==
  /\ frame = "thumbs"
  /\ FrameCall(IF ~state.open_anim_active THEN ProcessThumbQueueIn(Env) ELSE Env,
               "input")

\* main loop, input handling: what one frame's input does to the AppState.
\* Navigation (keys, edge clicks): `if not state.open_anim_active`, and
\* `state.index + 1 < len(images)` / `state.index - 1 >= 0`.
NavRequested(s, input) ==
  /\ ~s.open_anim_active
  /\ \/ input = "next" /\ s.index + 1 < Len(s.current_dir_images)
     \/ input = "prev" /\ s.index - 1 >= 0

\* The gallery wheel, zoom keys and wheel zoom: `state.cache.curr and not
\* state.open_anim_active and not state.toggle_zoom_active`
ViewInputAllowed(s) ==
  s.cache.curr # NoTextureInfo /\ ~s.open_anim_active /\ ~s.toggle_zoom_active

\* A toolbar button: `elif state.index < len(state.current_dir_images)`, and
\* rotate_image_file / flip_image_file return True, which they do for a file
\* that can be decoded
TransformSucceeds(s) ==
  /\ s.index < Len(s.current_dir_images)
  /\ s.current_dir_images[s.index + 1] \notin BadPaths

\* main loop, KEY_ZOOM_IN / KEY_ZOOM_OUT held down
ZoomKeys(s, input) ==
  IF input \in {"zoom_in", "zoom_out"} /\ ViewInputAllowed(s)
    THEN ZoomTo(s, IF input = "zoom_in"
                     THEN Min(ScaleMul(s.view.scale, ScaleUnit + ZOOM_STEP_KEYS),
                              MAX_ZOOM)
                     ELSE ScaleMul(s.view.scale, ScaleUnit - ZOOM_STEP_KEYS))
    ELSE s

\* main loop, the mouse wheel over the gallery
GalleryWheel(s, input) ==
  IF input \in {"wheel_up", "wheel_down"} /\ ViewInputAllowed(s)
    THEN LET n == Len(s.current_dir_images)
             base == IF s.gallery_target_index # NoIndex
                       THEN s.gallery_target_index ELSE s.index
         IN  [s EXCEPT !.gallery_target_index =
                           IF input = "wheel_up"
                             THEN Max(0, base - 1)
                             ELSE Min(n - 1, base + 1),
                       !.elapsed.wheel = 0]
    ELSE s

\* main loop, KEY_TOGGLE_ZOOM
ToggleKey(s, input) ==
  IF input = "toggle" /\ ~s.toggle_zoom_active
    THEN StartToggleZoomAnimation(s) ELSE s

\* main loop, `over_img`: the mouse is on the image as drawn
OverImage(s) ==
  LET x == s.view.offx
      y == s.view.offy
      width == Scaled(Px(s.cache.curr.w), s.view.scale)
      height == Scaled(Px(s.cache.curr.h), s.view.scale)
      mx == Px(s.mouse[1])
      my == Px(s.mouse[2])
  IN  /\ x <= mx /\ mx <= x + width
      /\ y <= my /\ my <= y + height

\* main loop, panning: the left button pressed on the image, released, and
\* the view following the mouse while is_panning
PanStage(s, input) ==
  LET ti == s.cache.curr
      s1 == IF input = "pan_press" /\ OverImage(s)
              THEN [s EXCEPT !.is_panning = TRUE,
                             !.pan_start_mouse = s.mouse,
                             !.pan_start_offset = <<s.view.offx, s.view.offy>>]
              ELSE s
      dx == s1.mouse[1] - s1.pan_start_mouse[1]
      dy == s1.mouse[2] - s1.pan_start_mouse[2]
      actually_panned == Abs(dx) > PAN_THRESHOLD_PX \/ Abs(dy) > PAN_THRESHOLD_PX
      path == s1.current_dir_images[s1.index + 1]
      r == [s1 EXCEPT !.is_panning = FALSE]
      s2 == IF input = "pan_release" /\ s1.is_panning
              THEN IF actually_panned /\ r.index < Len(r.current_dir_images)
                     THEN [SaveViewForPath([r EXCEPT !.zoom_state_cycle = ZOOM_USER],
                                           path, r.view)
                             EXCEPT !.user_zoom_memory =
                               MemPut(@, path, ViewParams(r.view.scale, r.view.offx,
                                                          r.view.offy))]
                     ELSE r
              ELSE s1
      nv == ViewParams(s2.view.scale,
                       s2.pan_start_offset[1] + Px(dx),
                       s2.pan_start_offset[2] + Px(dy))
  IN  IF ti # NoTextureInfo /\ ~s.open_anim_active /\ ~s.toggle_zoom_active
        THEN IF s2.is_panning THEN [s2 EXCEPT !.view = ClampPanTo(nv, ti)] ELSE s2
        ELSE s

\* main loop, navigation keys
NavKeys(s, input) ==
  IF NavRequested(s, input)
    THEN SwitchTo(s, IF input = "next" THEN s.index + 1 ELSE s.index - 1,
                  TRUE, ANIM_SWITCH_KEYS_MS)
    ELSE s

\* rl.GetMousePosition() after the user moved the mouse
MouseMoved(mouse) == CHOOSE p \in MousePositions : p # mouse

\* main loop, one frame's input handling in the order of the code: the
\* toolbar, the Delete key (a deletion ends the frame: `continue`), the
\* zoom keys, the wheel, the toggle key, panning, navigation
HandleInput(s, input) ==
  LET s0 == IF input = "mouse_move" THEN [s EXCEPT !.mouse = MouseMoved(@)] ELSE s
      s1 == IF input = "reload" /\ TransformSucceeds(s0)
              THEN ReloadCurrentImage(s0) ELSE s0
  IN  IF input = "delete" /\ ~s.open_anim_active /\ DeleteSucceeds(s)
        THEN DeleteCurrentImage(s)
        ELSE Only({NavKeys(s5, input) : s5 \in
               {PanStage(s4, input) : s4 \in
                 {ToggleKey(s3, input) : s3 \in
                   {GalleryWheel(s2, input) : s2 \in
                     {ZoomKeys(s1, input)}}}}})

ViewerInputs == {"next", "prev", "wheel_up", "wheel_down", "zoom_in", "toggle"}

\* main loop: a frame in which the user does `input`, and the input handling
\* acts on it or calls switch_to (an input the guards of the frame loop
\* ignore is no input)
FrameInput(input, max_inputs) ==
  /\ frame = "input"
  /\ mpc = "idle"
  /\ inputs < max_inputs
  /\ \E env \in {Env} :
       \E after \in {HandleInput(env, input)} :
         /\ after # HandleInput(env, "none") \/ NavRequested(state, input)
         /\ Commit(after)
  /\ inputs' = inputs + 1
  /\ frame' = IF input = "delete" /\ ~state.open_anim_active /\ DeleteSucceeds(state)
                THEN IF Len(state'.current_dir_images) = 0 THEN "exit" ELSE "poll"
                ELSE "render"
  /\ anim_requests' = AnimRequests(state, NavRequested(state, input))
  /\ observed' = IF NavRequested(state, input)
                   THEN [observed EXCEPT !.last_request =
                           IF input = "next" THEN 1 ELSE 0 - 1]
                   ELSE observed
  /\ UNCHANGED <<running, ui_events, wpc, wtask, wresult, pollVars, obsVars,
                 last_pop, calc,
                 controller>>

\* main loop: a frame without user input (the view still follows a pan)
FrameNoInput ==
  /\ frame = "input"
  /\ mpc = "idle"
  /\ \E env \in {Env} : Commit(HandleInput(env, "none"))
  /\ frame' = "render"
  /\ UNCHANGED <<running, ui_events, wpc, wtask, wresult, pollVars, obsVars,
                 inputs, anim_requests, last_pop, observed, calc,
                 controller>>

\* main loop: render_image(state); the frame ends
FrameRender ==
  /\ frame = "render"
  /\ FrameCall(RenderImageIn(Env), "poll")

\* Between two frames the clock advances by TickMs: every running timer
\* ages (elapsed times beyond ElapsedCap compare alike)
Age(s, timer, running_) ==
  IF running_ /\ s.elapsed[timer] < ElapsedCap THEN s.elapsed[timer] + 1
  ELSE s.elapsed[timer]

Aged(s) ==
  [open |-> Age(s, "open", s.open_anim_active /\ s.open_anim_t0 # 0),
   switch |-> Age(s, "switch", s.switch_anim_active),
   zoom |-> Age(s, "zoom", s.zoom_anim_active),
   toggle |-> Age(s, "toggle", s.toggle_zoom_active),
   wheel |-> Age(s, "wheel", s.gallery_target_index # NoIndex)]

Tick ==
  /\ frame = "poll"
  /\ mpc = "idle"
  /\ Aged(state) # state.elapsed
  /\ state' = [state EXCEPT !.elapsed = Aged(state)]
  /\ UNCHANGED <<loaderVars, pollVars, obsVars, frame, inputs, anim_requests,
                 last_pop, observed, calc,
                 controller>>

FrameStep ==
  \/ FramePollBegin
  \/ FrameDispatch
  \/ FramePollReturn
  \/ FrameDeferredUnloads
  \/ FrameUpdateZoom
  \/ FrameUpdateToggle
  \/ FrameSwitchQueue
  \/ FrameReconcile
  \/ FrameThumbs
  \/ FrameNoInput
  \/ FrameRender

ViewerInput == \E input \in ViewerInputs : FrameInput(input, MaxInputs)

Next ==
  \/ \E w \in 1..ViewerWorkers : ViewerWorkerStep(w)
  \/ FrameStep
  \/ ViewerInput
  \/ Tick

Spec == InitViewer /\ [][Next]_vars

\* Startup is over: nothing is loading, queued or animating.
AtRest ==
  /\ task_queue = <<>>
  /\ ui_events = <<>>
  /\ \A w \in Workers : wpc[w] = "loop"
  /\ state.thumb_queue = <<>>
  /\ state.to_unload = <<>>
  /\ ~state.open_anim_active

\* The user waits for the viewer to come to rest before the input.
LiveInput == \E input \in ViewerInputs : AtRest /\ FrameInput(input, MaxInputs)

NextLive ==
  \/ \E w \in 1..ViewerWorkers : ViewerWorkerStep(w)
  \/ FrameStep
  \/ LiveInput
  \/ Tick

\* Frames keep being processed: the loop reaches its first and its last call
\* again and again.
FramesKeepRunning == []<>(frame = "poll") /\ []<>(frame = "render")

\* Frames keep being processed, the clock advances between frames while a
\* timer runs, and a worker thread with a task to take or an event to push
\* does so; the user owes no input.
SpecLive ==
  /\ InitViewer /\ [][NextLive]_vars
  /\ FramesKeepRunning
  /\ SF_vars(Tick)
  /\ \A w \in 1..ViewerWorkers : WF_vars(ViewerWorkerStep(w))

\* --------------------------------------- the viewer under a burst of keys

\* Navigation requests in one behaviour of the burst, and the requests of a
\* tween that starts with Previous.
MaxBurst == 26
MixedRequests == 2

\* The burst starts from the first image.
BurstStartIndexes == {0}

InitBurst == InitViewerAt(BurstStartIndexes)

\* A switch is in progress: its decode is pending or its tween runs.
SwitchInProgress(s) == s.waiting_for_switch \/ s.switch_anim_active

\* The user lets the viewer start up, starts one switch and then presses
\* navigation keys while a switch is in progress (until the first dequeue):
\* Next over and over, or in a tween Previous first and then Next, or
\* Previous once the queue is full.
BurstAllowed(input) ==
  /\ \/ inputs = 0 /\ AtRest
     \/ inputs > 0 /\ SwitchInProgress(state) /\ last_pop = NoPop
  /\ input = "prev" =>
       /\ state.switch_anim_active
       /\ \/ anim_requests = 0
          \/ Len(state.switch_queue) = SWITCH_QUEUE_LIMIT
  /\ (state.switch_queue # <<>> /\ Head(state.switch_queue).direction < 0)
       => anim_requests < MixedRequests

BurstInput ==
  \E input \in {"next", "prev"} :
    BurstAllowed(input) /\ FrameInput(input, MaxBurst)

NextBurst ==
  \/ \E w \in 1..ViewerWorkers : ViewerWorkerStep(w)
  \/ FrameStep
  \/ BurstInput
  \/ Tick

SpecBurst == InitBurst /\ [][NextBurst]_vars

\* ------------------------------- the viewer while images are edited

\* Inputs in one behaviour of the editing session
MaxEdits == 2
EditStartIndexes == {1}

InitEdit == InitViewerAt(EditStartIndexes)

\* The user lets the viewer start up, then navigates, deletes the image
\* (Delete key), transforms it (a toolbar button, rotate_image_file or
\* flip_image_file succeeding) or presses the mouse button on it, the
\* second time without waiting.
EditInput ==
  \E input \in {"next", "prev", "delete", "reload", "pan_press"} :
    /\ inputs = 0 => AtRest
    /\ FrameInput(input, MaxEdits)

NextEdit ==
  \/ \E w \in 1..ViewerWorkers : ViewerWorkerStep(w)
  \/ FrameStep
  \/ EditInput
  \/ Tick

SpecEdit == InitEdit /\ [][NextEdit]_vars

\* ------------------------------------------- the view functions alone

\* clamp_pan applied to arguments drawn from the sets below (scales from
\* the floor 0.01 to MAX_ZOOM, offsets on and far off the screen, an image
\* larger than the screen, the placeholder and a tall image), and
\* recompute_view_anchor_zoom applied as the zoom keys and the wheel apply
\* it: to a view clamp_pan returned, about an anchor on the screen, for the
\* scale one zoom step away.
CalcScales ==
  {SCALE_FLOOR, (316 * ScaleUnit) \div 1000, ScaleUnit, (5 * ScaleUnit) \div 2,
   MAX_ZOOM}
CalcOffsets == {Px(0 - 700), Px(0 - 3), Px(0), Px(37), Px(450)}
CalcImages == {<<ImgW, ImgH>>, <<PLACEHOLDER_SIZE, PLACEHOLDER_SIZE>>, <<ImgH, ImgW>>}
CalcAnchors == {<<0, 0>>, <<ScreenW \div 2, ScreenH \div 2>>, <<ScreenW, ScreenH>>}
\* 1.0 - ZOOM_STEP_KEYS, 1.0 + ZOOM_STEP_KEYS, and 1.0 -+ ZOOM_STEP_WHEEL
CalcZoomFactors ==
  {ScaleUnit - ZOOM_STEP_KEYS, ScaleUnit + ZOOM_STEP_KEYS,
   ScaleUnit - 2 * ZOOM_STEP_KEYS, ScaleUnit + 2 * ZOOM_STEP_KEYS}

\* compute_fit_view and sanitize_view applied to <<img_w, img_h, screen_w,
\* screen_h>>: the model's image on the model's screen, an image that fills
\* it, an 800 x 600 image on a 1920 x 1080 screen, and a 14700 x 1300
\* panorama on a desktop of three 5120 x 1440 monitors side by side; the
\* fractions are FIT_DEFAULT_SCALE, FIT_OPEN_SCALE (0.60) and 1.0.
CalcFitSizes ==
  {<<ImgW, ImgH, ScreenW, ScreenH>>, <<ScreenW, ScreenH, ScreenW, ScreenH>>,
   <<PLACEHOLDER_SIZE, PLACEHOLDER_SIZE, ScreenW, ScreenH>>,
   <<800, 600, 1920, 1080>>, <<14700, 1300, 15360, 1440>>}
CalcFitFractions == {FIT_DEFAULT_SCALE, (60 * ScaleUnit) \div 100, ScaleUnit}

InitViewMath ==
  /\ task_queue = <<>>
  /\ running = TRUE
  /\ ui_events = <<>>
  /\ wpc = [w \in Workers |-> "loop"]
  /\ wtask = [w \in Workers |-> NoTask]
  /\ wresult = [w \in Workers |-> NoResult]
  /\ clock = 0
  /\ mpc = "idle"
  /\ events_to_process = <<>>
  /\ ev_i = 0
  /\ poll_max = 0
  /\ poll_outcome = "none"
  /\ invoked = [t \in TaskIds |-> 0]
  /\ raised_at = 0
  /\ wfailed = [w \in Workers |-> FALSE]
  /\ state = AppState0
  /\ frame = "none"
  /\ inputs = 0
  /\ anim_requests = 0
  /\ last_pop = NoPop
  /\ observed = NothingObserved
  /\ controller = NewController
  /\ \/ \E scale \in CalcScales, offx \in CalcOffsets, offy \in CalcOffsets,
           img \in CalcImages, anchor \in CalcAnchors, factor \in CalcZoomFactors :
          calc = [fn |-> "args",
                  view |-> ViewParams(scale, offx, offy),
                  img_w |-> img[1], img_h |-> img[2],
                  screen_w |-> ScreenW, screen_h |-> ScreenH,
                  factor |-> factor, anchor |-> anchor,
                  result |-> ViewParams0, again |-> ViewParams0,
                  zoomed |-> ViewParams0]
     \/ \E sizes \in CalcFitSizes, frac \in CalcFitFractions :
          calc = [fn |-> "fit_args",
                  view |-> ViewParams0,
                  img_w |-> sizes[1], img_h |-> sizes[2],
                  screen_w |-> sizes[3], screen_h |-> sizes[4],
                  factor |-> frac, anchor |-> <<0, 0>>,
                  result |-> ViewParams0, again |-> ViewParams0,
                  zoomed |-> ViewParams0]

CalcUnchanged ==
  UNCHANGED <<loaderVars, pollVars, obsVars, state, frame, inputs, anim_requests,
              last_pop, observed, controller>>

\* clamp_pan(view, img_w, img_h, screen_w, screen_h)
CalcClampPan ==
  /\ calc.fn = "args"
  /\ calc' = [calc EXCEPT !.fn = "clamp_pan",
                          !.result = ClampPan(calc.view, calc.img_w, calc.img_h,
                                              calc.screen_w, calc.screen_h)]
  /\ CalcUnchanged

\* clamp_pan applied to what clamp_pan returned
CalcClampPanAgain ==
  /\ calc.fn = "clamp_pan"
  /\ calc' = [calc EXCEPT !.fn = "clamp_pan_twice",
                          !.again = ClampPan(calc.result, calc.img_w, calc.img_h,
                                             calc.screen_w, calc.screen_h)]
  /\ CalcUnchanged

\* main loop: `new_scale = min(state.view.scale * (1.0 + step), MAX_ZOOM)`
CalcNewScale == Min(ScaleMul(calc.result.scale, calc.factor), MAX_ZOOM)

\* recompute_view_anchor_zoom(view, new_scale, anchor, img_w, img_h)
CalcAnchorZoom ==
  /\ calc.fn = "clamp_pan"
  /\ calc' = [calc EXCEPT !.fn = "anchor_zoom",
                          !.zoomed = RecomputeViewAnchorZoom(
                              calc.result, CalcNewScale, calc.anchor,
                              calc.img_w, calc.img_h)]
  /\ CalcUnchanged

\* compute_fit_view(img_w, img_h, screen_w, screen_h, frac)
CalcFitView ==
  /\ calc.fn = "fit_args"
  /\ calc' = [calc EXCEPT !.fn = "fit_view",
                          !.result = CenterViewFor(
                              ComputeFitScale(calc.img_w, calc.img_h, calc.screen_w,
                                              calc.screen_h, calc.factor),
                              calc.img_w, calc.img_h, calc.screen_w, calc.screen_h)]
  /\ CalcUnchanged

\* sanitize_view applied to what compute_fit_view returned
CalcSanitizeFit ==
  /\ calc.fn = "fit_view"
  /\ calc' = [calc EXCEPT !.fn = "sanitize_fit",
                          !.again = SanitizeView(calc.result, calc.img_w, calc.img_h,
                                                 calc.screen_w, calc.screen_h)]
  /\ CalcUnchanged

NextViewMath ==
  \/ CalcClampPan
  \/ CalcClampPanAgain
  \/ CalcAnchorZoom
  \/ CalcFitView
  \/ CalcSanitizeFit

SpecViewMath == InitViewMath /\ [][NextViewMath]_vars

\* ------------------------------ the viewer in a directory above the limit

\* A directory of more images than the thumbnail cache holds, opened at its
\* first image; the user navigates when the viewer has come to rest.
LargeDirImages == <<"a.png", "b.png", "c.png", "d.png">>
LargeStartIndexes == {0}
MaxLargeInputs == 1

InitLarge == InitViewerIn(LargeDirImages, LargeStartIndexes)

LargeInput ==
  \E input \in {"next", "prev"} : AtRest /\ FrameInput(input, MaxLargeInputs)

NextLarge ==
  \/ \E w \in 1..ViewerWorkers : ViewerWorkerStep(w)
  \/ FrameStep
  \/ LargeInput
  \/ Tick

SpecLarge == InitLarge /\ [][NextLarge]_vars

\* ------------------------------------------ the viewer zoomed and toggled

\* The small directory opened at its first image; the user zooms with the
\* keys, toggles the zoom and navigates, each time when the viewer has come
\* to rest and no tween runs.
MaxViewInputs == 4
ViewStartIndexes == {0}

InitView == InitViewerAt(ViewStartIndexes)

ViewAtRest ==
  /\ AtRest
  /\ ~state.switch_anim_active
  /\ ~state.waiting_for_switch
  /\ ~state.zoom_anim_active
  /\ ~state.toggle_zoom_active

ViewInput ==
  \E input \in {"toggle", "zoom_in", "zoom_out", "next", "prev"} :
    ViewAtRest /\ FrameInput(input, MaxViewInputs)

NextView ==
  \/ \E w \in 1..ViewerWorkers : ViewerWorkerStep(w)
  \/ FrameStep
  \/ ViewInput
  \/ Tick

SpecView == InitView /\ [][NextView]_vars

\* ------------------------------ the viewer with two decodes side by side

\* A directory of two images opened at the first one and decoded by all
\* the workers of the pool; the user navigates once when the viewer has
\* come to rest and again while that switch waits for its decode.
MaxOverlapInputs == 2
OverlapDirImages == <<"a.png", "b.png">>
OverlapStartIndexes == {0}

InitOverlap == InitViewerIn(OverlapDirImages, OverlapStartIndexes)

OverlapInput ==
  \E input \in {"next", "prev"} :
    /\ \/ inputs = 0 /\ AtRest
       \/ inputs > 0 /\ state.waiting_for_switch
    /\ FrameInput(input, MaxOverlapInputs)

NextOverlap ==
  \/ \E w \in Workers : ViewerWorkerStep(w)
  \/ FrameStep
  \/ OverlapInput
  \/ Tick

SpecOverlap == InitOverlap /\ [][NextOverlap]_vars

\* --------------------------------- the viewer switched during a zoom tween

\* The small directory opened at its first image; at rest the user zooms
\* in or toggles the zoom and, while that tween runs, goes to the next
\* image.
MaxTweenInputs == 2
TweenStartIndexes == {0}

InitTween == InitViewerAt(TweenStartIndexes)

TweenInput ==
  \/ \E input \in {"zoom_in", "toggle"} :
       inputs = 0 /\ ViewAtRest /\ FrameInput(input, MaxTweenInputs)
  \/ /\ inputs = 1
     /\ state.zoom_anim_active \/ state.toggle_zoom_active
     /\ FrameInput("next", MaxTweenInputs)

NextTween ==
  \/ \E w \in 1..ViewerWorkers : ViewerWorkerStep(w)
  \/ FrameStep
  \/ TweenInput
  \/ Tick

SpecTween == InitTween /\ [][NextTween]_vars

\* ------------------------------------------- the AnimationController alone

\* A controller is driven by its four methods in any order while time
\* passes: start with a new animation of any type, with or without an
\* on_complete callback (the n-th start call passes animation n and, when it
\* passes a callback, callback n; a callback returns or raises without
\* calling the controller); cancel; cancel_all; update.
MaxAnimStarts == 3

\* The controller is new; the loader and the viewer are not started.
InitAnim == InitLoader

AnimUnchanged ==
  UNCHANGED <<loaderVars, pollVars, obsVars, state, frame, inputs, anim_requests,
              last_pop, observed, calc>>

\* controller.start(animation, on_complete); an animation of duration_ms <= 0
\* is complete from the start
AnimStart ==
  \E anim_type \in AnimationTypes, with_callback \in BOOLEAN, instant \in BOOLEAN :
    /\ controller.started < MaxAnimStarts
    /\ LET id == controller.started + 1
       IN  controller' =
             ControllerStart([controller EXCEPT !.started = id],
                             Animation(id, anim_type, instant),
                             IF with_callback THEN id ELSE NoCallback)
    /\ AnimUnchanged

\* now() passes start_time + duration_ms of a running animation (or its
\* finish() is called): is_complete becomes true
AnimElapse ==
  \E i \in DOMAIN controller.animations :
    /\ ~controller.animations[i].is_complete
    /\ controller' = [controller EXCEPT !.animations[i].is_complete = TRUE]
    /\ AnimUnchanged

\* controller.cancel(anim_type)
AnimCancel ==
  \E anim_type \in AnimationTypes :
    /\ controller' = ControllerCancel(controller, anim_type)
    /\ AnimUnchanged

\* controller.cancel_all()
AnimCancelAll ==
  /\ controller' = ControllerCancelAll(controller)
  /\ AnimUnchanged

\* controller.update()
AnimUpdate ==
  /\ controller' = ControllerUpdate(controller)
  /\ AnimUnchanged

NextAnim ==
  \/ AnimStart
  \/ AnimElapse
  \/ AnimCancel
  \/ AnimCancelAll
  \/ AnimUpdate

SpecAnim == InitAnim /\ [][NextAnim]_vars

\* ------------------------------------------------------------------ claims

\* C1: when a worker takes a task from the task queue, no task that was
\* pending in the queue at that moment has a smaller priority value
\* (CURRENT < NEIGHBOR < GALLERY) than the task it took.
C1_PriorityOrdering ==
  [][\A w \in Workers :
       (wpc[w] = "get" /\ wpc'[w] = "decode") =>
         \A i \in 1..Len(task_queue) :
           wtask'[w].priority <= task_queue[i].priority]_vars

\* A worker is decoding a task that was submitted after a task of lower
\* priority which is still pending: it overtook that task.
C1_Witness ==
  \E w \in Workers : \E i \in 1..Len(task_queue) :
    /\ wpc[w] = "decode"
    /\ task_queue[i].priority > wtask[w].priority
    /\ task_queue[i].timestamp < wtask[w].timestamp

\* C2: the callback of a submitted task is never invoked more than once,
\* and, unless the pool is shut down, it is eventually invoked once.
C2_ExactlyOnce ==
  /\ [](\A t \in TaskIds : invoked[t] <= 1)
  /\ \A t \in TaskIds :
       (<>(~running)) \/ ((clock >= t) ~> (invoked[t] = 1))

\* Every task of the run has been submitted and answered exactly once.
C2_Witness ==
  /\ clock = MaxTasks
  /\ \A t \in TaskIds : invoked[t] = 1

\* C3: a decode failure leaves the worker in its loop: the failing call ends
\* with (result, error) = (None, error), the worker pushes exactly the event
\* (callback, path, None, error) of its task and returns to the head of its
\* loop; a worker that has captured a failure ends only on shutdown.
C3_DecodeErrorCaptured ==
  [][\A w \in Workers :
       /\ (wpc[w] = "decode" /\ wpc'[w] # "decode") =>
            /\ wpc'[w] = "push"
            /\ (wresult'[w].error # None) => (wresult'[w].result = None)
       /\ (wpc[w] = "push" /\ wresult[w].error # None /\ wpc'[w] # "push") =>
            /\ ui_events' =
                 Append(ui_events,
                        [callback |-> wtask[w].callback, path |-> wtask[w].path,
                         result |-> None, error |-> wresult[w].error,
                         tid |-> wtask[w].timestamp])
            /\ wpc'[w] = "loop"
       /\ (wfailed'[w] /\ wpc'[w] = "exit") => ~running']_vars

\* A worker that captured a decode failure is decoding a later task.
C3_Witness ==
  \E w \in Workers : wfailed[w] /\ wpc[w] = "decode" /\ wtask[w] # NoTask

\* The events pushed and not yet handed to their callbacks, oldest first.
Pending ==
  SubSeq(events_to_process, ev_i + 1, Len(events_to_process)) \o ui_events

\* C4: a poll_ui_events call takes at most max_events events, the oldest
\* ones in their order, and leaves the rest queued in their order; the
\* undelivered events only ever grow at the tail (a push) or lose their
\* head to exactly one callback invocation of that event's task.
C4_PollBudgetFifo ==
  [][/\ (mpc = "idle" /\ mpc' = "dispatch") =>
          /\ Len(events_to_process') <= poll_max'
          /\ events_to_process' \o ui_events' = ui_events
     /\ \/ Pending' = Pending
        \/ /\ Len(Pending') = Len(Pending) + 1
           /\ SubSeq(Pending', 1, Len(Pending)) = Pending
           /\ invoked' = invoked
        \/ /\ Pending # <<>>
           /\ Pending' = Tail(Pending)
           /\ invoked' = [invoked EXCEPT ![Head(Pending).tid] = @ + 1]]_vars

\* A poll whose budget was binding: it took max_events events and at least
\* one more event is waiting in the queue.
C4_Witness ==
  /\ mpc = "dispatch"
  /\ Len(events_to_process) = poll_max
  /\ Len(ui_events) > 0

\* C5: poll_ui_events returns only after the callback of every event it
\* popped was invoked, and it returns normally, whether or not a callback
\* raised.
C5_CallbackFailureIsolated ==
  [][(mpc = "dispatch" /\ mpc' = "idle") =>
       /\ ev_i = Len(events_to_process)
       /\ poll_outcome' = "returned"]_vars

\* Inside one call a callback raised and a later event was still invoked.
C5_Witness ==
  /\ mpc = "dispatch"
  /\ raised_at > 0
  /\ ev_i > raised_at

\* C6: when the CURRENT decode backing a pending switch (waiting_for_switch
\* set by switch_to) completes with an error, its callback substitutes the
\* placeholder texture and clears waiting_for_switch and
\* pending_target_index.
SwitchErrorDispatched ==
  /\ frame = "poll"
  /\ mpc = "dispatch"
  /\ ev_i < Len(events_to_process)
  /\ ev_i' = ev_i + 1
  /\ CurrentEvent.callback.kind = "current"
  /\ CurrentEvent.callback.origin = "switch"
  /\ CurrentEvent.error # None
  /\ state.waiting_for_switch
  /\ state.pending_target_index # NoIndex
  /\ CurrentEvent.path = state.current_dir_images[state.pending_target_index + 1]

C6_SwitchErrorSettles ==
  [][SwitchErrorDispatched =>
       /\ state'.cache.curr.w = PLACEHOLDER_SIZE
       /\ state'.cache.curr.path = CurrentEvent.path
       /\ ~state'.waiting_for_switch
       /\ state'.pending_target_index = NoIndex]_vars

\* C7: each of the open, switch, zoom and toggle-zoom animations, once its
\* active flag is set, eventually has the flag cleared while frames keep
\* being processed and the clock advances.
C7_AnimationsReturnToIdle ==
  /\ state.open_anim_active ~> ~state.open_anim_active
  /\ state.switch_anim_active ~> ~state.switch_anim_active
  /\ state.zoom_anim_active ~> ~state.zoom_anim_active
  /\ state.toggle_zoom_active ~> ~state.toggle_zoom_active

\* The CURRENT decodes switch_to started that are still in flight: queued,
\* held by a worker, or pushed and not yet dispatched.
IsSwitchDecode(callback) ==
  callback.kind = "current" /\ callback.origin = "switch"

SwitchDecodesInFlight ==
  Cardinality({i \in DOMAIN task_queue : IsSwitchDecode(task_queue[i].callback)})
  + Cardinality({w \in Workers :
                   wpc[w] = "push" /\ IsSwitchDecode(wtask[w].callback)})
  + Cardinality({i \in DOMAIN ui_events : IsSwitchDecode(ui_events[i].callback)})
  + Cardinality({i \in DOMAIN events_to_process :
                   i > ev_i /\ IsSwitchDecode(events_to_process[i].callback)})

\* C8: at most one switch is in progress at any time, so at most one
\* CURRENT decode started by switch_to is in flight.
C8_OneSwitchDecodeInFlight == SwitchDecodesInFlight <= 1

\* C9: the switch queue is first in, first out: a request enters at the
\* tail, and the request dequeued is the oldest one, whose effect on the index
\* is applied in the same step (before any later request is dequeued).
C9_SwitchQueueFifo ==
  [][state'.switch_queue # state.switch_queue =>
       \/ \E direction \in {0 - 1, 1} :
            state'.switch_queue =
              Append(state.switch_queue,
                     SwitchRequest(direction, ANIM_SWITCH_KEYS_MS))
       \/ /\ state.switch_queue # <<>>
          /\ state'.switch_queue = Tail(state.switch_queue)
          /\ last_pop' = Head(state.switch_queue)
          /\ state'.index =
               Clamp(state.index + Head(state.switch_queue).direction,
                     0, Len(state.current_dir_images) - 1)]_vars

\* Previous then Next were queued in one tween; Previous was dequeued and
\* applied (index 1 -> 0) and Next is still queued.
C9_Witness ==
  /\ last_pop = SwitchRequest(0 - 1, ANIM_SWITCH_KEYS_MS)
  /\ state.switch_queue = <<SwitchRequest(1, ANIM_SWITCH_KEYS_MS)>>
  /\ state.index = 0

\* The requests of the scenario: all of the burst but the key press that
\* starts the switch.
BurstRequests == MaxBurst - 1

\* C10: the switch queue never holds more than 20 requests, and 25
\* requests made during one slide tween leave exactly 20 queued.
C10_SwitchQueueBound ==
  /\ Len(state.switch_queue) <= SWITCH_QUEUE_LIMIT
  /\ (state.switch_anim_active /\ anim_requests = BurstRequests)
       => Len(state.switch_queue) = SWITCH_QUEUE_LIMIT

C10_Witness ==
  /\ state.switch_anim_active
  /\ anim_requests = BurstRequests
  /\ Len(state.switch_queue) = SWITCH_QUEUE_LIMIT

\* A navigation request arrives (switch_to is called) during the slide tween
\* while SWITCH_QUEUE_LIMIT requests are queued.
OverflowRequest ==
  /\ frame = "input"
  /\ inputs' = inputs + 1
  /\ state.switch_anim_active
  /\ Len(state.switch_queue) = SWITCH_QUEUE_LIMIT

\* C11: a request that arrives while 20 requests are queued is retained at
\* the tail of the queue and the oldest queued request is discarded.
C11_OverflowDropsOldest ==
  [][OverflowRequest =>
       state'.switch_queue =
         Append(Tail(state.switch_queue),
                SwitchRequest(observed'.last_request, ANIM_SWITCH_KEYS_MS))]_vars

\* The textures the switch snapshots reference: waiting_prev_snapshot while
\* the decode of the switch is pending, switch_anim_prev_tex while the slide
\* tween runs.
SnapshotTextures ==
  {ti.tex : ti \in
     {ti \in {state.waiting_prev_snapshot} :
        state.waiting_for_switch /\ ti # NoTextureInfo}
     \cup {ti \in {state.switch_anim_prev_tex} :
             state.switch_anim_active /\ ti # NoTextureInfo}}

\* C12: a texture referenced by a switch snapshot is neither queued for
\* unloading nor destroyed before that switch animation settles.
C12_SnapshotTextureKept ==
  \A tex \in SnapshotTextures :
    /\ ~InSeq(state.to_unload, tex)
    /\ tex \in state.gpu_live

\* C13: no GPU texture is appended to to_unload more than once over its
\* lifetime: the unload queue never holds a texture twice, and never a
\* texture that an earlier pass over the queue has already destroyed.
C13_SingleUnloadOwner ==
  \A i \in DOMAIN state.to_unload :
    /\ state.to_unload[i] \in state.gpu_live
    /\ \A j \in DOMAIN state.to_unload :
         state.to_unload[j] = state.to_unload[i] => j = i

\* C14: while the viewer runs a GPU texture is destroyed only by
\* process_deferred_unloads: a step of any other call leaves every live
\* texture live.
C14_DestroyedOnlyDeferred ==
  [][(state.gpu_live \ state'.gpu_live # {}) =>
       (frame = "unload" /\ frame' = "zoom")]_vars

\* cache.prev, when set, holds the image before the current one, and
\* cache.next, when set, the image after it.
NeighborSlotsMatch ==
  LET images == state.current_dir_images
  IN  /\ state.cache.prev # NoTextureInfo =>
           /\ state.index - 1 >= 0
           /\ state.cache.prev.path = images[state.index]
      /\ state.cache.next # NoTextureInfo =>
           /\ state.index + 1 < Len(images)
           /\ state.cache.next.path = images[state.index + 2]

\* poll_ui_events hands a decoded image to on_neighbor_loaded.
NeighborDelivered ==
  /\ frame = "poll"
  /\ mpc = "dispatch"
  /\ ev_i < Len(events_to_process)
  /\ ev_i' = ev_i + 1
  /\ CurrentEvent.callback.kind = "neighbor"
  /\ CurrentEvent.error = None

\* C15: a NEIGHBOR result is stored in cache.prev if its image is at
\* index - 1 and in cache.next if it is at index + 1 when it is delivered,
\* and is discarded otherwise; so cache.prev and cache.next, when set, always
\* hold the images next to the current one.
C15_NeighborAppliedIfAdjacent ==
  /\ []NeighborSlotsMatch
  /\ [][NeighborDelivered =>
          LET idx == IndexOfPath(state.current_dir_images, CurrentEvent.path)
          IN  IF idx # NoIndex /\ idx = state.index - 1
                THEN /\ state'.cache.prev.path = CurrentEvent.path
                     /\ state'.cache.next = state.cache.next
                     /\ state'.cache.curr = state.cache.curr
                ELSE IF idx # NoIndex /\ idx = state.index + 1
                  THEN /\ state'.cache.next.path = CurrentEvent.path
                       /\ state'.cache.prev = state.cache.prev
                       /\ state'.cache.curr = state.cache.curr
                  ELSE state'.cache = state.cache]_vars

\* Within one poll a decoded neighbour that is no longer next to the current
\* image was delivered and is in neither slot, while cache.next holds the
\* image that is.
C15_Witness ==
  /\ mpc = "dispatch"
  /\ state.cache.next # NoTextureInfo
  /\ \E i \in 1..ev_i :
       LET e == events_to_process[i]
           idx == IndexOfPath(state.current_dir_images, e.path)
       IN  /\ e.callback.kind = "neighbor"
           /\ e.error = None
           /\ idx # NoIndex
           /\ idx # state.index - 1
           /\ idx # state.index + 1
           /\ state.cache.prev.path # e.path
           /\ state.cache.next.path # e.path

\* poll_ui_events hands an error to on_current_loaded.
CurrentErrorDelivered ==
  /\ frame = "poll"
  /\ mpc = "dispatch"
  /\ ev_i < Len(events_to_process)
  /\ ev_i' = ev_i + 1
  /\ CurrentEvent.callback.kind = "current"
  /\ CurrentEvent.error # None

\* C16: when on_current_loaded is invoked with an error, cache.curr becomes
\* the 2x2 placeholder texture for the path of the event and loading_current
\* is cleared.
C16_CurrentErrorPlaceholder ==
  [][CurrentErrorDelivered =>
       /\ state'.cache.curr.tex \in state'.gpu_live
       /\ state'.cache.curr.w = PLACEHOLDER_SIZE
       /\ state'.cache.curr.h = PLACEHOLDER_SIZE
       /\ state'.cache.curr.path = CurrentEvent.path
       /\ ~state'.loading_current]_vars

\* The current image is a heavy one whose decode failed: the placeholder
\* stands for it and the loading flag, set when the decode was submitted, is
\* cleared.
C16_Witness ==
  /\ state.cache.curr.w = PLACEHOLDER_SIZE
  /\ state.cache.curr.path = state.current_dir_images[state.index + 1]
  /\ state.cache.curr.path \in HeavyPaths \cap BadPaths
  /\ ~state.loading_current

\* C17: after every schedule_thumbs call, every process_thumb_queue call and
\* every delivery of a thumbnail decode the thumbnail cache holds at most
\* THUMB_CACHE_LIMIT entries.
C17_ThumbCacheBounded == Len(state.thumb_cache) <= THUMB_CACHE_LIMIT

\* The GALLERY decodes of path submitted and not yet delivered: queued, held
\* by a worker, or pushed and not yet dispatched.
GalleryDecodesInFlight(path) ==
  Cardinality({i \in DOMAIN task_queue :
                 task_queue[i].priority = GALLERY /\ task_queue[i].path = path})
  + Cardinality({w \in Workers :
                   /\ wpc[w] = "push"
                   /\ wtask[w].priority = GALLERY
                   /\ wtask[w].path = path})
  + Cardinality({i \in DOMAIN ui_events :
                   /\ ui_events[i].callback.kind = "thumb"
                   /\ ui_events[i].path = path})
  + Cardinality({i \in DOMAIN events_to_process :
                   /\ i > ev_i
                   /\ events_to_process[i].callback.kind = "thumb"
                   /\ events_to_process[i].path = path})

\* C18: no path is queued for a thumbnail twice, and no two GALLERY decodes
\* of one path are submitted and undelivered at the same time.
C18_NoDuplicateThumbRequest ==
  /\ \A i, j \in DOMAIN state.thumb_queue :
       state.thumb_queue[i] = state.thumb_queue[j] => i = j
  /\ \A i \in DOMAIN LargeDirImages :
       GalleryDecodesInFlight(LargeDirImages[i]) <= 1

\* The GALLERY tasks of path in the task queue
GalleryTasksQueued(queue, path) ==
  Cardinality({i \in DOMAIN queue :
                 queue[i].priority = GALLERY /\ queue[i].path = path})

\* poll_ui_events hands an error to on_thumb_loaded.
ThumbErrorDelivered ==
  /\ frame = "poll"
  /\ mpc = "dispatch"
  /\ ev_i < Len(events_to_process)
  /\ ev_i' = ev_i + 1
  /\ CurrentEvent.callback.kind = "thumb"
  /\ CurrentEvent.error # None

\* C19: a GALLERY decode error for a path leaves the path's entry not ready
\* and without a texture, and from then on no GALLERY decode of that path is
\* submitted again.
C19_FailedThumbNeverRetried ==
  [][/\ ThumbErrorDelivered =>
          \E i \in DOMAIN state'.thumb_cache :
            state'.thumb_cache[i] =
              BitmapThumb(NoTexture, CurrentEvent.path, FALSE)
     /\ \A path \in observed.thumb_errors :
          GalleryTasksQueued(task_queue', path)
            <= GalleryTasksQueued(task_queue, path)]_vars

\* poll_ui_events hands a result (an image or an error) to on_thumb_loaded.
ThumbDelivered ==
  /\ frame = "poll"
  /\ mpc = "dispatch"
  /\ ev_i < Len(events_to_process)
  /\ ev_i' = ev_i + 1
  /\ CurrentEvent.callback.kind = "thumb"

\* C20: a thumbnail result delivered for a path that has no entry in the
\* thumbnail cache any more (evicted, deleted, invalidated by a reload) is
\* discarded: the delivery inserts no entry for that path.
C20_StaleThumbDiscarded ==
  [][(ThumbDelivered /\ ~InThumbCache(state.thumb_cache, CurrentEvent.path))
       => ~InThumbCache(state'.thumb_cache, CurrentEvent.path)]_vars

\* ---------------------------------------------------------------------
\* C21: every change of the index cancels a pan in progress -- after a step
\* that changes state.index or removes the current image from the list
\* (switch_to starting a switch, delete_current_image), is_panning is false.
C21_IndexChangeCancelsPan ==
  [][(\/ state'.index # state.index
      \/ state'.current_dir_images # state.current_dir_images)
     => ~state'.is_panning]_vars

\* ---------------------------------------------------------------------
\* C22: the index is clamped to the list -- preload_neighbors called with
\* any new index (from one below the list to one past it) leaves the index
\* at that index clamped to [0, n - 1]; with a non-empty list 0 <= index < n
\* in every state; and delete_current_image leaves the index it had,
\* clamped to the shorter list (the last position when it removed the last
\* element).
C22_IndexInList ==
  LET n == Len(state.current_dir_images)
  IN  n > 0 =>
        /\ 0 <= state.index /\ state.index < n
        /\ \A new_index \in (0 - 1)..n :
             PreloadNeighbors(Env, new_index, TRUE, "open").index
               = Clamp(new_index, 0, n - 1)

C22_DeleteKeepsIndexInList ==
  LET n == Len(state'.current_dir_images)
  IN  (n < Len(state.current_dir_images) /\ n > 0)
        => state'.index = Clamp(state.index, 0, n - 1)

C22_IndexClamped == []C22_IndexInList /\ [][C22_DeleteKeepsIndexInList]_vars

\* The last element of the list was deleted, and the index is the new last
\* position.
C22_Witness ==
  /\ state.current_dir_images = <<"a.png", "b.png">>
  /\ state.index = 1
  /\ inputs = 2
  /\ observed.last_request = 1

\* ---------------------------------------------------------------------
\* C23: first in, first out within a priority class -- submit stamps each
\* task with a timestamp later than that of every task already pending, and
\* when a worker takes a task, every task of the same priority that was
\* pending with it has a later timestamp: of two pending tasks of one
\* priority the one submitted first is picked first.
C23_FifoWithinPriority ==
  [][/\ \A i \in 1..Len(task_queue') :
          (\A j \in 1..Len(task_queue) : task_queue[j] # task_queue'[i])
            => \A j \in 1..Len(task_queue) :
                 task_queue[j].timestamp < task_queue'[i].timestamp
     /\ \A w \in Workers :
          (wpc[w] = "get" /\ wpc'[w] = "decode") =>
            \A i \in 1..Len(task_queue') :
              task_queue'[i].priority = wtask'[w].priority
                => wtask'[w].timestamp < task_queue'[i].timestamp]_vars

\* A worker is decoding a task while a task of the same priority submitted
\* after it, and a task of another priority submitted between the two, are
\* still pending.
C23_Witness ==
  \E w \in Workers : \E i, j \in 1..Len(task_queue) :
    /\ wpc[w] = "decode"
    /\ task_queue[i].priority = wtask[w].priority
    /\ task_queue[i].timestamp > wtask[w].timestamp
    /\ task_queue[j].priority # wtask[w].priority
    /\ task_queue[j].timestamp > wtask[w].timestamp
    /\ task_queue[j].timestamp < task_queue[i].timestamp

\* ---------------------------------------------------------------------
\* C28: shutdown stops the pool -- once the running flag is cleared no
\* worker starts another iteration of its loop (it finishes at most the
\* iteration it is in: the pop that timed out, or the task it took), and
\* every worker eventually leaves its loop; a worker waiting on an empty
\* queue is not held there.
C28_NoNewIteration ==
  \A w \in Workers :
    (~running /\ wpc[w] = "loop") => wpc'[w] \in {"loop", "exit"}

C28_AllWorkersExited == \A w \in Workers : wpc[w] = "exit"

C29_CentreWithinBounds ==
  LET vw == Scaled(Px(calc.img_w), calc.view.scale)
      vh == Scaled(Px(calc.img_h), calc.view.scale)
  IN  /\ Abs(calc.result.offx + vw \div 2 - Px(calc.screen_w) \div 2)
           <= Abs(Px(calc.screen_w) - vw) \div 2
      /\ Abs(calc.result.offy + vh \div 2 - Px(calc.screen_h) \div 2)
           <= Abs(Px(calc.screen_h) - vh) \div 2

C29_ClampPanIdempotent ==
  /\ calc.fn \in {"clamp_pan", "clamp_pan_twice"} =>
       /\ calc.result.scale = calc.view.scale
       /\ C29_CentreWithinBounds
  /\ calc.fn = "clamp_pan_twice" => calc.again = calc.result

\* clamp_pan moved the view on both axes, and was applied to its result.
C29_Witness ==
  /\ calc.fn = "clamp_pan_twice"
  /\ calc.result.offx # calc.view.offx
  /\ calc.result.offy # calc.view.offy
  /\ calc.again = calc.result

\* ---------------------------------------------------------------------
\* C30: anchor invariance -- the image coordinate under the anchor point of
\* the screen, computed with the scale and offset of the view given to
\* recompute_view_anchor_zoom, equals the one computed with the scale and
\* offset of the view it returns, to within the image length of one unit of
\* offset at the returned scale.
C30_AnchorTolerance == ScaleUnit \div calc.zoomed.scale + 1

C30_AnchorInvariant ==
  calc.fn = "anchor_zoom" =>
    \A axis \in {1, 2} :
      LET before == IF axis = 1 THEN calc.result.offx ELSE calc.result.offy
          after == IF axis = 1 THEN calc.zoomed.offx ELSE calc.zoomed.offy
      IN  Abs(Unscaled(Px(calc.anchor[axis]) - before, calc.result.scale)
              - Unscaled(Px(calc.anchor[axis]) - after, calc.zoomed.scale))
            <= C30_AnchorTolerance

\* recompute_view_anchor_zoom returned another scale and other offsets for
\* an anchor that is not the corner of the image.
C30_Witness ==
  /\ calc.fn = "anchor_zoom"
  /\ calc.zoomed.scale # calc.result.scale
  /\ calc.zoomed.offx # calc.result.offx
  /\ calc.zoomed.offy # calc.result.offy

\* ---------------------------------------------------------------------
\* A toggle-zoom tween starts; it lands (the current image is there); the
\* path of the current image.
ToggleStarts == ~state.toggle_zoom_active /\ state'.toggle_zoom_active
ToggleLands ==
  /\ state.toggle_zoom_active
  /\ ~state'.toggle_zoom_active
  /\ state.cache.curr # NoTextureInfo
PathAtIndex == state.current_dir_images[state.index + 1]

\* C24: the toggle cycles the zoom classification 1:1 -> Fit -> Custom ->
\* 1:1 -- a toggle that starts records as its landing classification Fit
\* when the classification is 1:1, Custom when it is Fit and 1:1 when it is
\* Custom, and leaves the classification as it is; its target for Custom is
\* the view in the user-zoom memory for the current path, or the fit view
\* if there is none; while the tween runs its target is kept and, the
\* current image staying, so is the classification; when it lands the
\* classification becomes the one recorded. A toggle requested while the
\* tween runs changes nothing.
C24_ToggleStep ==
  /\ ToggleStarts =>
       /\ state'.toggle_zoom_target_state =
            (CASE state.zoom_state_cycle = ZOOM_1TO1 -> ZOOM_FIT
               [] state.zoom_state_cycle = ZOOM_FIT -> ZOOM_USER
               [] state.zoom_state_cycle = ZOOM_USER -> ZOOM_1TO1)
       /\ state'.zoom_state_cycle = state.zoom_state_cycle
       /\ state'.toggle_zoom_target_state = ZOOM_USER =>
            state'.toggle_zoom_to =
              IF PathAtIndex \in DOMAIN state.user_zoom_memory
                THEN state.user_zoom_memory[PathAtIndex]
                ELSE state.last_fit_view
  /\ (state.toggle_zoom_active /\ state'.toggle_zoom_active) =>
       /\ state'.toggle_zoom_target_state = state.toggle_zoom_target_state
       /\ state'.toggle_zoom_to = state.toggle_zoom_to
       /\ state'.cache.curr = state.cache.curr
            => state'.zoom_state_cycle = state.zoom_state_cycle
  /\ ToggleLands => state'.zoom_state_cycle = state.toggle_zoom_target_state

C24_ToggleWhileActiveIgnored ==
  state.toggle_zoom_active => HandleInput(Env, "toggle") = HandleInput(Env, "none")

C25_ToggleLandingMemories ==
  [][ToggleLands =>
       /\ state'.view_memory =
            MemPut(state.view_memory, PathAtIndex,
                   SanitizeViewFor(state'.view, state'.cache.curr))
       /\ state'.user_zoom_memory =
            IF state'.zoom_state_cycle = ZOOM_USER
              THEN MemPut(state.user_zoom_memory, PathAtIndex, state'.view)
              ELSE state.user_zoom_memory]_vars

\* A toggle has landed on 1:1: the view memory holds the 1:1 view, the
\* user-zoom memory still the Custom view of before.
C25_Witness ==
  /\ ~state.toggle_zoom_active
  /\ state.zoom_state_cycle = ZOOM_1TO1
  /\ state.toggle_zoom_target_state = ZOOM_1TO1
  /\ PathAtIndex \in DOMAIN state.view_memory
  /\ state.view_memory[PathAtIndex].scale = ScaleUnit
  /\ PathAtIndex \in DOMAIN state.user_zoom_memory
  /\ state.user_zoom_memory[PathAtIndex].scale # ScaleUnit

\* ---------------------------------------------------------------------
\* poll_ui_events hands a decoded image to on_current_loaded.
CurrentImageDelivered ==
  /\ frame = "poll"
  /\ mpc = "dispatch"
  /\ ev_i < Len(events_to_process)
  /\ ev_i' = ev_i + 1
  /\ CurrentEvent.callback.kind = "current"
  /\ CurrentEvent.error = None

\* C27: when a CURRENT decode is delivered with an image, the view becomes
\* the sanitized view of the view memory for its path if there is one, else
\* the fit view; the classification is Fit if there was none, and else 1:1
\* if the restored scale is within 0.01 of 1.0, else Fit if it is within
\* 0.01 of the fit scale, else Custom.
C27_ViewRestored ==
  [][CurrentImageDelivered =>
       LET path == CurrentEvent.path
           fit == ComputeFitView(state', FIT_DEFAULT_SCALE)
       IN  IF path \in DOMAIN state.view_memory
             THEN /\ state'.view = SanitizeViewFor(state.view_memory[path],
                                                   state'.cache.curr)
                  /\ state'.zoom_state_cycle =
                       IF Abs(state'.view.scale - ScaleUnit) < SCALE_TOLERANCE
                         THEN ZOOM_1TO1
                         ELSE IF Abs(state'.view.scale - fit.scale) < SCALE_TOLERANCE
                           THEN ZOOM_FIT
                           ELSE ZOOM_USER
             ELSE /\ state'.view = fit
                  /\ state'.zoom_state_cycle = ZOOM_FIT]_vars

\* The user zoomed the first image with the keys and came back to it: in
\* the switch tween towards it the view is the one of the view memory,
\* classified Custom.
C27_Witness ==
  /\ state.switch_anim_active
  /\ state.cache.curr.path = "a.png"
  /\ "a.png" \in DOMAIN state.view_memory
  /\ state.view = state.view_memory["a.png"]
  /\ state.zoom_state_cycle = ZOOM_USER
  /\ state.view.scale # state.last_fit_view.scale

\* ---------------------------------------------------------------------
\* render_image finds the switch tween complete.
SwitchSettles ==
  /\ frame = "render"
  /\ state.switch_anim_active
  /\ ~state'.switch_anim_active

\* C26: when a switch tween completes, the snapshot texture is enqueued for
\* destruction, the view is sanitized, and the view memory entry for the
\* current path equals the sanitized view.
C26_SettlePersistsView ==
  [][SwitchSettles =>
       /\ \E i \in DOMAIN state'.to_unload :
            state'.to_unload[i] = state.switch_anim_prev_tex.tex
       /\ state'.view = SanitizeViewFor(state.view, state.cache.curr)
       /\ PathAtIndex \in DOMAIN state'.view_memory
       /\ state'.view_memory[PathAtIndex] = state'.view]_vars

\* ---------------------------------------------------------------------
\* C31: sanitize_view leaves a centred fit view as it is -- applied to the
\* view compute_fit_view returned for an image, a screen and a fit fraction
\* it returns the same scale and the same offsets (to within the rounding of
\* one offset unit).
C31_SanitizeKeepsFitView ==
  calc.fn = "sanitize_fit" =>
    /\ calc.again.scale = calc.result.scale
    /\ Abs(calc.again.offx - calc.result.offx) <= 1
    /\ Abs(calc.again.offy - calc.result.offy) <= 1

\* ---------------------------------------------------------------------
\* The decodes of priority pr submitted by the step: the positions of the
\* tasks of the queue that were not queued before it.
SubmittedInStep(pr) ==
  {i \in DOMAIN task_queue' :
     /\ task_queue'[i].priority = pr
     /\ \A j \in DOMAIN task_queue : task_queue[j] # task_queue'[i]}

\* C32: while the open animation is active no NEIGHBOR and no thumbnail
\* decode is submitted and no path leaves the thumbnail queue; the step
\* that completes the open tween calls preload_neighbors for the current
\* index with the neighbours: it submits one CURRENT decode of the current
\* image and one NEIGHBOR decode for each neighbour there is, and clears
\* pending_neighbors_load; the open animation never becomes active again, so
\* this happens once.
C32_OpenStep ==
  /\ (state.open_anim_active /\ state'.open_anim_active) =>
       /\ SubmittedInStep(NEIGHBOR) = {}
       /\ SubmittedInStep(GALLERY) = {}
       /\ Len(state'.thumb_queue) >= Len(state.thumb_queue)
  /\ (state.open_anim_active /\ ~state'.open_anim_active) =>
       LET n == Len(state.current_dir_images)
           neighbours == {i \in {state.index - 1, state.index + 1} :
                            0 <= i /\ i < n}
       IN  /\ ~state'.pending_neighbors_load
           /\ state'.index = state.index
           /\ Cardinality(SubmittedInStep(CURRENT)) = 1
           /\ \A i \in SubmittedInStep(CURRENT) :
                task_queue'[i].path = PathAtIndex
           /\ Cardinality(SubmittedInStep(NEIGHBOR)) = Cardinality(neighbours)
           /\ \A k \in neighbours : \E i \in SubmittedInStep(NEIGHBOR) :
                task_queue'[i].path = state.current_dir_images[k + 1]
  /\ ~state.open_anim_active => ~state'.open_anim_active

SwitchQueueDrained ==
  /\ frame = "switchq"
  /\ frame' = "reconcile"
  /\ ~state.switch_anim_active
  /\ state.switch_queue # <<>>

\* C33: a queued switch request is applied to the index of the moment it is
\* dequeued -- its target is that index plus or minus one, clamped to
\* [0, n - 1]; when the target is the index itself the request is removed
\* and nothing else changes (no switch starts, no decode is submitted, the
\* index stays); otherwise a switch to the target starts.
C33_DrainStep ==
  SwitchQueueDrained =>
    LET n == Len(state.current_dir_images)
        request == Head(state.switch_queue)
        target == Clamp(IF request.direction > 0
                          THEN state.index + 1 ELSE state.index - 1, 0, n - 1)
    IN  /\ state'.switch_queue = Tail(state.switch_queue)
        /\ state'.index = target
        /\ IF target = state.index
             THEN /\ state' = [state EXCEPT !.switch_queue = Tail(@)]
                  /\ task_queue' = task_queue
             ELSE /\ state'.waiting_for_switch
                  /\ state'.pending_target_index = target
                  /\ \E i \in SubmittedInStep(CURRENT) :
                       task_queue'[i].path = state.current_dir_images[target + 1]

C33_QueuedSwitchReevaluated == [][C33_DrainStep]_vars

\* process_switch_queue has just dequeued a Next at the last image, whose
\* decode had already been delivered: no switch was started (nothing is
\* loading), and further requests are still queued.
C33_Witness ==
  /\ frame = "reconcile"
  /\ last_pop.direction = 1
  /\ state.index = Len(state.current_dir_images) - 1
  /\ ~state.switch_anim_active
  /\ ~state.loading_current
  /\ state.switch_queue # <<>>

\* ---------------------------------------------------------------------
\* The keys of the thumbnail cache in the order the OrderedDict holds them.
ThumbKeys(cache) == [i \in DOMAIN cache |-> cache[i].src_path]

\* C34: the thumbnail cache is evicted in insertion order only -- in every
\* step the keys that stay keep their relative order and new keys come
\* after them, a key that is removed stood before every key that stays
\* (the earliest inserted goes first), the delivery of a decode for a key
\* that is in the cache leaves the order of the keys as it is, and drawing
\* a frame (which reads the cache) does not touch the cache.
C34_ThumbOrderStep ==
  LET K == ThumbKeys(state.thumb_cache)
      Kn == ThumbKeys(state'.thumb_cache)
      Pos(p) == CHOOSE i \in DOMAIN K : K[i] = p
  IN  /\ \A i, j \in DOMAIN Kn :
           i < j => /\ Kn[i] # Kn[j]
                    /\ InSeq(K, Kn[j]) =>
                         InSeq(K, Kn[i]) /\ Pos(Kn[i]) < Pos(Kn[j])
      /\ \A i, j \in DOMAIN K :
           (~InSeq(Kn, K[i]) /\ InSeq(Kn, K[j])) => i < j
      /\ Len(Kn) < Len(K) =>
           /\ frame = "thumbs"
           /\ Len(Kn) = THUMB_CACHE_LIMIT
      /\ (ThumbDelivered /\ InSeq(K, CurrentEvent.path)) => Kn = K
      /\ frame = "render" => state'.thumb_cache = state.thumb_cache

C34_EvictionByInsertionOrder == [][C34_ThumbOrderStep]_vars

\* a.png, inserted first, has been evicted; b.png, inserted with it, had
\* its decode delivered (an update in place) and is still ahead of the
\* entries inserted later, whose decodes have not arrived.
C34_Witness ==
  /\ ThumbKeys(state.thumb_cache) = <<"b.png", "c.png", "d.png">>
  /\ state.thumb_cache[1].ready
  /\ ~state.thumb_cache[3].ready

\* ---------------------------------------------------------------------
\* C35: an AnimationController holds at most one animation of each
\* AnimationType whatever sequence of start, cancel, cancel_all and update
\* calls it has served, and a start call replaces the running animation of
\* the type: after it the animation passed is the one of its type, last in
\* the list, and the animations of the other types are as they were.
C35_StartReplaces ==
  controller'.started = controller.started + 1 =>
    LET new == controller'.animations[Len(controller'.animations)]
    IN  /\ new.id = controller'.started
        /\ GetAnimation(controller', new.type) = new.id
        /\ SubSeq(controller'.animations, 1, Len(controller'.animations) - 1)
             = SelectSeq(controller.animations, LAMBDA a : a.type # new.type)

C35_OneAnimationPerType ==
  /\ [](\A i, j \in DOMAIN controller.animations :
          i # j => controller.animations[i].type # controller.animations[j].type)
  /\ [][C35_StartReplaces]_vars

\* Animation 2 runs in the place of animation 1 of the same type, which a
\* start call replaced (the callback given with animation 1 is still
\* registered, and cancel and update would have removed it), next to an
\* animation of another type.
C35_Witness ==
  /\ Len(controller.animations) = 2
  /\ \E t \in AnimationTypes :
       /\ GetAnimation(controller, t) = 2
       /\ controller.on_complete_callbacks[t] = 1

\* C40: an on_complete callback is invoked at most once and only with the
\* animation it was given to start with -- never with an animation that
\* replaced it, nor after it was cancelled.
C40_CallbackOnlyForOwnAnimation ==
  \A k \in DOMAIN controller.calls :
    /\ controller.calls[k].callback = controller.calls[k].animation
    /\ \A l \in DOMAIN controller.calls :
         l # k => controller.calls[l].callback # controller.calls[k].callback

\* ---------------------------------------------------------------------
\* The CURRENT decodes submitted and not yet delivered: queued, held by a
\* worker, or pushed and not yet dispatched.
CurrentDecodesInFlight ==
  Cardinality({i \in DOMAIN task_queue : task_queue[i].priority = CURRENT})
  + Cardinality({w \in Workers :
                   /\ wpc[w] # "loop"
                   /\ wtask[w] # NoTask
                   /\ wtask[w].priority = CURRENT})
  + Cardinality({i \in DOMAIN ui_events : ui_events[i].callback.kind = "current"})
  + Cardinality({i \in DOMAIN events_to_process :
                   i > ev_i /\ events_to_process[i].callback.kind = "current"})

\* C36: once every CURRENT decode that was submitted has been delivered and
\* no switch is waiting (for its decode or in the switch queue), the
\* texture in cache.curr, if there is one, is the one of the image at
\* state.index -- in whatever order overlapping CURRENT decodes completed.
C36_CurrentMatchesIndex ==
  (/\ CurrentDecodesInFlight = 0
   /\ ~state.waiting_for_switch
   /\ state.switch_queue = <<>>
   /\ state.cache.curr # NoTextureInfo)
    => state.cache.curr.path = PathAtIndex

\* ---------------------------------------------------------------------
\* The textures some owner still answers for: the three cache slots, the
\* switch snapshots, the thumbnail entries and the deferred unload queue.
OwnedTextures ==
  ({state.cache.prev.tex, state.cache.curr.tex, state.cache.next.tex,
    state.waiting_prev_snapshot.tex, state.switch_anim_prev_tex.tex}
   \cup {state.thumb_cache[i].texture : i \in DOMAIN state.thumb_cache}
   \cup {state.to_unload[i] : i \in DOMAIN state.to_unload}) \ {NoTexture}

\* C37: no GPU texture is leaked -- every texture that was uploaded and
\* not destroyed is referenced by cache.prev, cache.curr or cache.next, by
\* a switch snapshot or by a thumbnail entry, or is queued for unloading.
C37_NoTextureLeak == state.gpu_live \subseteq OwnedTextures

\* ---------------------------------------------------------------------
\* The textures of the three cache slots.
SlotTextures ==
  {state.cache.prev.tex, state.cache.curr.tex, state.cache.next.tex} \ {NoTexture}

\* C38: a texture that has been appended to the deferred unload queue, or
\* destroyed, is not referenced by cache.prev, cache.curr or cache.next any
\* more: every texture of a cache slot is live and not queued for unloading.
C38_SlotTexturesKept ==
  \A tex \in SlotTextures :
    /\ ~InSeq(state.to_unload, tex)
    /\ tex \in state.gpu_live

\* ---------------------------------------------------------------------
\* Nothing is in flight and nothing is animating: the image at the index is
\* on display.
ViewerIdle ==
  /\ CurrentDecodesInFlight = 0
  /\ ~state.waiting_for_switch
  /\ ~state.switch_anim_active
  /\ ~state.zoom_anim_active
  /\ ~state.toggle_zoom_active
  /\ state.switch_queue = <<>>
  /\ state.cache.curr.path = PathAtIndex

\* C39: a zoom or toggle tween started on one image does not carry over to
\* the next -- when the user has gone on to b.png (never viewed or zoomed
\* before) while the tween on a.png was running, then once the viewer is
\* idle the view is the view restored for b.png, the fit view as b.png has
\* no view of its own, and neither the view memory nor the user zoom memory
\* holds an entry for b.png (only the tween of a.png could have written
\* one, with its target).
C39_TweenStaysWithItsImage ==
  (ViewerIdle /\ state.index = 1) =>
    LET fit == ComputeFitView(state, FIT_DEFAULT_SCALE)
    IN  /\ state.view = fit
        /\ PathAtIndex \notin DOMAIN state.view_memory
        /\ PathAtIndex \notin DOMAIN state.user_zoom_memory
====
